---- MODULE Spec2Model ----
(***************************************************************************)
(* GPA Command: the metrics engine (core/metrics.py), the settings and     *)
(* CSV stores it reads (core/storage.py: load_df and save_df step by       *)
(* step, with and without Firebase), the import normalizers and merge      *)
(* helpers (core/normalize.py), the users store (core/auth.py) and the     *)
(* script launch.py runs (app.py): its sidebar, its pages and the          *)
(* handlers that write the stores.                                         *)
(*                                                                         *)
(* Conventions of the model                                                *)
(*   - a nullable cell (NaN / NaT / None / unparseable text) is a set:     *)
(*     {} is null, {v} holds v;                                            *)
(*   - a float is an exact rational <<n, d>> in lowest terms, d > 0;       *)
(*   - a weight is held in hundredths (0.70 is 70);                        *)
(*   - a calendar date is a day number;                                    *)
(*   - hours are held in quarter hours (the editors' step is 0.25);        *)
(*   - columns the metrics never read (name, notes, task, difficulty,      *)
(*     log/test date) are left out of the rows.                            *)
(***************************************************************************)
EXTENDS Integers, Sequences, FiniteSets, TLC

VARIABLES
    subjectsCsv,   \* subjects.csv: sequence of subject rows (all users)
    logsCsv,       \* logs.csv: sequence of log rows (all users)
    testsCsv,      \* tests.csv: sequence of test rows (all users)
    settingsJson,  \* settings.json: [readable, doc]
    today,         \* date.today()
    usersCsv,      \* users.csv: the ids of the accounts
    user,          \* st.session_state.user: {} or {uid}
    page,          \* the page the session shows
    cm,            \* the last compute_metrics call: arguments, environment, result
    ready,         \* the last weighted_readiness result: {} before any call
    firestore,     \* USE_FIREBASE and the Firestore document app_settings/default
    saving,        \* a save_settings call in progress: {} when there is none
    imp,           \* the import form: mode, uploaded files, and what the normalizers
                   \* returned at the last Run import ({}: nothing uploaded)
    disk,          \* logs.csv below the rows: logs.csv.tmp, a save_df or load_df call
                   \* in progress, and what the last calls were given and returned
    remote,        \* the Firestore collections subjects, logs and tests
    accounts,      \* users.csv with its username column: a sequence of account rows
    call           \* the last call into the users store (core/auth.py): its name,
                   \* arguments and what it returned ({}: none yet)

vars == <<subjectsCsv, logsCsv, testsCsv, settingsJson, today, usersCsv, user, page, cm, ready,
          firestore, saving, imp, disk, remote, accounts, call>>

----------------------------------------------------------------------------
\* Bounds of the model

MaxSubjects == 2
MaxLogs == 2
MaxTests == 1
LastDay == 2

----------------------------------------------------------------------------
\* Nullable cells and exact rationals

Null == {}
Some(v) == {v}
IsNull(x) == x = {}
NotNa(x) == x /= {}
Val(x) == CHOOSE v \in x : TRUE

Abs(n) == IF n < 0 THEN -n ELSE n

RECURSIVE GCD(_, _)
GCD(a, b) == IF b = 0 THEN a ELSE GCD(b, a % b)

\* n/d in lowest terms; a zero denominator gives what float64 division gives
\* (inf, -inf or nan), held as <<1, 0>>, <<-1, 0>>, <<0, 0>>
Rat(n, d) ==
    IF d = 0 THEN <<IF n > 0 THEN 1 ELSE IF n < 0 THEN -1 ELSE 0, 0>>
    ELSE LET s == IF d < 0 THEN -1 ELSE 1
             g == GCD(Abs(n), Abs(d))
         IN  <<(s * n) \div g, (s * d) \div g>>

IsFinite(a) == a[2] /= 0

RInt(n) == <<n, 1>>
RAdd(a, b) == Rat(a[1] * b[2] + b[1] * a[2], a[2] * b[2])
RSub(a, b) == Rat(a[1] * b[2] - b[1] * a[2], a[2] * b[2])
RMul(a, b) == Rat(a[1] * b[1], a[2] * b[2])
RDiv(a, b) == Rat(a[1] * b[2], a[2] * b[1])
RLe(a, b) == a[1] * b[2] <= b[1] * a[2]
RZero == RInt(0)
ROne == RInt(1)
RHundred == RInt(100)

Max(a, b) == IF a >= b THEN a ELSE b
Min(a, b) == IF a <= b THEN a ELSE b

RECURSIVE SeqSum(_)
SeqSum(s) == IF s = <<>> THEN 0 ELSE Head(s) + SeqSum(Tail(s))

RECURSIVE SeqRSum(_)
SeqRSum(s) == IF s = <<>> THEN RZero ELSE RAdd(Head(s), SeqRSum(Tail(s)))

RECURSIVE SetToSeq(_)
SetToSeq(S) ==
    IF S = {} THEN <<>>
    ELSE LET x == CHOOSE y \in S : TRUE IN <<x>> \o SetToSeq(S \ {x})

RECURSIVE Flatten(_)
Flatten(ss) == IF ss = <<>> THEN <<>> ELSE Head(ss) \o Flatten(Tail(ss))

Range(s) == {s[i] : i \in DOMAIN s}

----------------------------------------------------------------------------
\* Cells as they are stored: a date cell is text that may or may not parse

IsoDate(d) == [kind |-> "iso", day |-> d]
BadDate == [kind |-> "text", day |-> 0]
NoDate == [kind |-> "empty", day |-> 0]

\* pd.to_datetime(x, errors="coerce"): a timestamp, or NaT for anything else
to_datetime(cell) == IF cell.kind = "iso" THEN Some(cell.day) ELSE Null

\* Series.dt.strftime("%Y-%m-%d"): NaT becomes NaN, an empty cell in the CSV
strftime(ts) == IF NotNa(ts) THEN IsoDate(Val(ts)) ELSE NoDate

----------------------------------------------------------------------------
\* Settings (core/config.py, core/storage.py)

SettingsKeys == {"logs_weight", "tests_weight", "default_exam_date"}

\* "2025-09-05" is day 3 of the model's calendar
DEFAULT_SETTINGS ==
    [logs_weight |-> 70, tests_weight |-> 30, default_exam_date |-> IsoDate(3)]

\* dict.get(key, default)
Get(d, k, default) == IF k \in DOMAIN d THEN d[k] ELSE default

\* dict.update(other)
Update(d, other) ==
    [k \in (DOMAIN d) \cup (DOMAIN other) |->
        IF k \in DOMAIN other THEN other[k] ELSE d[k]]

\* settings.json: a JSON document, or a file json.loads cannot read
SettingsFile(doc) == [readable |-> TRUE, doc |-> doc]
UnreadableFile == [readable |-> FALSE, doc |-> <<>>]

\* the local branch of load_settings, on a given settings.json
LoadSettingsFrom(file) ==
    LET s == IF file.readable THEN file.doc ELSE DEFAULT_SETTINGS
    IN  [k \in (DOMAIN s) \cup SettingsKeys |->
            IF k \in DOMAIN s THEN s[k] ELSE DEFAULT_SETTINGS[k]]

\* USE_FIREBASE is off: there is no Firestore
FirebaseOff == [enabled |-> FALSE, settings |-> Null]

\* USE_FIREBASE is on; app_settings/default holds doc, or does not exist ({})
Firebase(doc) == [enabled |-> TRUE, settings |-> doc]

\* what _firestore_load_settings() returns: {**DEFAULT_SETTINGS, **data},
\* or the defaults when the document does not exist
_firestore_load_settings ==
    IF IsNull(firestore.settings) THEN DEFAULT_SETTINGS
    ELSE Update(DEFAULT_SETTINGS, Val(firestore.settings))

\* what load_settings() returns
load_settings ==
    IF firestore.enabled THEN _firestore_load_settings
    ELSE LoadSettingsFrom(settingsJson)

\* what load_settings() writes: with Firebase on, _firestore_load_settings
\* creates a missing document from the defaults (ref.set) and load_settings
\* writes what it loaded to settings.json (write_text)
LoadSettingsWrites ==
    /\ settingsJson' = IF firestore.enabled THEN SettingsFile(load_settings)
                       ELSE settingsJson
    /\ firestore' = IF firestore.enabled /\ IsNull(firestore.settings)
                    THEN Firebase(Some(DEFAULT_SETTINGS))
                    ELSE firestore

----------------------------------------------------------------------------
\* Metrics engine (core/metrics.py)

days_between(d1, d2) == d2 - d1

\* a faulty variant, not the code: credits and confidence exchanged
calc_priority_swapped(credits, confidence) == (10 - credits) * confidence

calc_priority(credits, confidence) == (10 - confidence) * credits

\* Series.mean(): NaN cells are skipped, an all-NaN group gives NaN
Mean(cells) ==
    LET present == SelectSeq(cells, NotNa)
        nums == [i \in DOMAIN present |-> Val(present[i])]
    IN  IF present = <<>> THEN Null ELSE Some(Rat(SeqSum(nums), Len(present)))

\* DataFrame.groupby("subject_id"): one group per key, NaN keys dropped
\* (an empty subject_id cell reads back from the CSV as NaN)
GroupKeys(rows) == {rows[i].subject_id : i \in DOMAIN rows} \ {""}

GroupRows(rows, k) == SelectSeq(rows, LAMBDA r : r.subject_id = k)

Column(rows, c) == [i \in DOMAIN rows |-> rows[i][c]]

\* a faulty variant, not the code: every group gets the hours of all the rows
HoursAgg_ungrouped(logs) ==
    {[subject_id |-> k, val |-> Some(SeqSum(Column(logs, "hours")))]
        : k \in GroupKeys(logs)}

\* logs.groupby("subject_id")["hours"].sum().reset_index()
HoursAgg(logs) ==
    {[subject_id |-> k, val |-> Some(SeqSum(Column(GroupRows(logs, k), "hours")))]
        : k \in GroupKeys(logs)}

\* rows.groupby("subject_id")["score"].mean().reset_index()
ScoreAgg(rows) ==
    {[subject_id |-> k, val |-> Mean(Column(GroupRows(rows, k), "score"))]
        : k \in GroupKeys(rows)}

\* a faulty variant, not the code: how="inner", a left row without a match is dropped
MergeRow_inner(r, agg, col) ==
    LET m == SetToSeq({a \in agg : a.subject_id = r.id})
    IN  [j \in DOMAIN m |-> r @@ (col :> m[j].val)]

\* one left row of a merge: a copy per matching right row, or one copy with
\* a null cell when nothing matches (how="left")
MergeRow(r, agg, col) ==
    LET m == SetToSeq({a \in agg : a.subject_id = r.id})
    IN  IF m = <<>> THEN <<r @@ (col :> Null)>>
        ELSE [j \in DOMAIN m |-> r @@ (col :> m[j].val)]

\* df.merge(agg, left_on="id", right_on="subject_id", how="left")
MergeLeft(df, agg, col) == Flatten([i \in DOMAIN df |-> MergeRow(df[i], agg, col)])

\* a faulty variant, not the code: a missing average is filled with 0 and the blend always taken
weighted_avg_fillzero(row, w_logs, w_tests) ==
    LET l == IF NotNa(row.logs_avg) THEN Val(row.logs_avg) ELSE RZero
        t == IF NotNa(row.tests_avg) THEN Val(row.tests_avg) ELSE RZero
    IN  RAdd(RMul(l, Rat(w_logs, 100)), RMul(t, Rat(w_tests, 100)))

weighted_avg(row, w_logs, w_tests) ==
    LET has_logs == NotNa(row.logs_avg)
        has_tests == NotNa(row.tests_avg)
    IN  IF has_logs /\ has_tests
        THEN RAdd(RMul(Val(row.logs_avg), Rat(w_logs, 100)),
                  RMul(Val(row.tests_avg), Rat(w_tests, 100)))
        ELSE IF has_logs THEN Val(row.logs_avg)
        ELSE IF has_tests THEN Val(row.tests_avg)
        ELSE RZero

\* a faulty variant, not the code: no max(0, ...)
DaysLeft_noclamp(d, default_exam, now) ==
    days_between(now, IF NotNa(d) THEN Val(d) ELSE Val(default_exam))

\* a faulty variant, not the code: a missing exam date counts as no days left instead of the default
DaysLeft_nodefault(d, default_exam, now) ==
    IF NotNa(d) THEN Max(0, days_between(now, Val(d))) ELSE 0

DaysLeft(d, default_exam, now) ==
    Max(0, days_between(now, IF NotNa(d) THEN Val(d) ELSE Val(default_exam)))

\* a faulty variant, not the code: the gap scaled by the score instead of by what is missing from it
PriorityGap_byscore(priority, avg_score) ==
    RMul(RInt(priority), RDiv(avg_score, RHundred))

\* a faulty variant, not the code: the score taken as a fraction, not a percentage
PriorityGap_unscaled(priority, avg_score) ==
    RMul(RInt(priority), RSub(ROne, avg_score))

PriorityGap(priority, avg_score) ==
    RMul(RInt(priority), RSub(ROne, RDiv(avg_score, RHundred)))

\* a faulty variant, not the code: settings.json is read as it is, without load_settings' backfill
compute_metrics_rawfile(subjects, logs, tests) ==
    LET settings == IF settingsJson.readable THEN settingsJson.doc ELSE <<>>
        w_logs == Get(settings, "logs_weight", 70)
        w_tests == Get(settings, "tests_weight", Max(0, 100 - w_logs))
        df0 == [i \in DOMAIN subjects |->
                  [subjects[i] EXCEPT !.exam_date = to_datetime(@)]
                  @@ ("priority" :>
                        calc_priority(subjects[i].credits, subjects[i].confidence))]
        df1 == MergeLeft(df0, HoursAgg(logs), "hours")
        df2 == MergeLeft(df1, ScoreAgg(tests), "tests_avg")
        df3 == MergeLeft(df2, ScoreAgg(logs), "logs_avg")
        default_exam ==
            to_datetime(Get(settings, "default_exam_date",
                            DEFAULT_SETTINGS.default_exam_date))
    IN  [i \in DOMAIN df3 |->
            LET r == [df3[i] EXCEPT !.hours = IF NotNa(@) THEN Val(@) ELSE 0]
                avg == weighted_avg(r, w_logs, w_tests)
            IN  r @@ ("avg_score" :> avg)
                  @@ ("days_left" :> DaysLeft(r.exam_date, default_exam, today))
                  @@ ("priority_gap" :> PriorityGap(r.priority, avg))]

compute_metrics(subjects, logs, tests) ==
    LET settings == load_settings
        w_logs == Get(settings, "logs_weight", 70)
        w_tests == Get(settings, "tests_weight", Max(0, 100 - w_logs))
        hours == HoursAgg(logs)
        testsavg == ScoreAgg(tests)
        logsavg == ScoreAgg(logs)
        df0 == [i \in DOMAIN subjects |->
                  [subjects[i] EXCEPT !.exam_date = to_datetime(@)]
                  @@ ("priority" :>
                        calc_priority(subjects[i].credits, subjects[i].confidence))]
        df1 == MergeLeft(df0, hours, "hours")
        df2 == MergeLeft(df1, testsavg, "tests_avg")
        df3 == MergeLeft(df2, logsavg, "logs_avg")
        df4 == [i \in DOMAIN df3 |->
                  [df3[i] EXCEPT !.hours = IF NotNa(@) THEN Val(@) ELSE 0]]
        df5 == [i \in DOMAIN df4 |->
                  df4[i] @@ ("avg_score" :> weighted_avg(df4[i], w_logs, w_tests))]
        default_exam ==
            to_datetime(Get(settings, "default_exam_date",
                            DEFAULT_SETTINGS.default_exam_date))
        df6 == [i \in DOMAIN df5 |->
                  df5[i] @@ ("days_left" :>
                        DaysLeft(df5[i].exam_date, default_exam, today))]
    IN  [i \in DOMAIN df6 |->
            df6[i] @@ ("priority_gap" :>
                  PriorityGap(df6[i].priority, df6[i].avg_score))]

\* a faulty variant, not the code: no "if den" guard
weighted_readiness_noguard(df_metrics) ==
    IF df_metrics = <<>> THEN RZero
    ELSE LET num == SeqRSum([i \in DOMAIN df_metrics |->
                        RMul(RInt(df_metrics[i].priority),
                             RDiv(df_metrics[i].avg_score, RHundred))])
             den == SeqSum(Column(df_metrics, "priority"))
         IN  RDiv(num, RInt(den))

\* a faulty variant, not the code: the plain mean of the scores, priorities only guarding the division
weighted_readiness_unweighted(df_metrics) ==
    IF df_metrics = <<>> THEN RZero
    ELSE LET num == SeqRSum([i \in DOMAIN df_metrics |->
                        RDiv(df_metrics[i].avg_score, RHundred)])
             den == SeqSum(Column(df_metrics, "priority"))
         IN  IF den /= 0 THEN RDiv(num, RInt(Len(df_metrics))) ELSE RZero

weighted_readiness(df_metrics) ==
    IF df_metrics = <<>> THEN RZero
    ELSE LET num == SeqRSum([i \in DOMAIN df_metrics |->
                        RMul(RInt(df_metrics[i].priority),
                             RDiv(df_metrics[i].avg_score, RHundred))])
             den == SeqSum(Column(df_metrics, "priority"))
         IN  IF den /= 0 THEN RDiv(num, RInt(den)) ELSE RZero

----------------------------------------------------------------------------
\* The session's view of the stores (the script's "load and isolate user data")

\* rows of the signed-in user, or the unclaimed rows when nobody is signed in
Mine(rows) ==
    IF NotNa(user) THEN SelectSeq(rows, LAMBDA r : r.user_id = Val(user))
    ELSE SelectSeq(rows, LAMBDA r : r.user_id = "")

subjects_df == Mine(subjectsCsv)
logs_df == Mine(logsCsv)
tests_df == Mine(testsCsv)

----------------------------------------------------------------------------
\* The record of the last compute_metrics call

NoCall ==
    [valid |-> FALSE, subjects |-> <<>>, logs |-> <<>>, tests |-> <<>>,
     stored |-> SettingsFile(DEFAULT_SETTINGS), settings |-> DEFAULT_SETTINGS,
     today |-> 0, metrics |-> <<>>, raised |-> FALSE]

\* a call compute_metrics(subjects, logs, tests), with what it read and returned
CallRecord(subjects, logs, tests) ==
    [valid |-> TRUE, subjects |-> subjects, logs |-> logs, tests |-> tests,
     stored |-> settingsJson, settings |-> load_settings, today |-> today,
     metrics |-> compute_metrics(subjects, logs, tests), raised |-> FALSE]

\* A caller applies compute_metrics to the session's rows
ComputeMetricsCall ==
    /\ cm' = CallRecord(subjects_df, logs_df, tests_df)
    /\ ready' = Null
    /\ LoadSettingsWrites
    /\ UNCHANGED <<call, disk, remote, accounts, imp, saving, subjectsCsv, logsCsv, testsCsv, today, usersCsv, user, page>>

\* A caller applies weighted_readiness to the last metrics table (the empty
\* table before any compute_metrics call)
WeightedReadinessCall ==
    /\ ready' = Some(weighted_readiness(cm.metrics))
    /\ UNCHANGED <<call, disk, remote, accounts, imp, firestore, saving, subjectsCsv, logsCsv, testsCsv, settingsJson, today, usersCsv, user, page, cm>>

----------------------------------------------------------------------------
\* Inputs of the metrics engine

Users == {"u1"}

\* what the settings form can choose
LogsWeightChoices == {50, 100}
ExamDayChoices == {0}

\* the settings form's document: settings.update({...}) on the loaded settings
FormSettings(settings, logs_weight, default_exam) ==
    Update(settings,
           [logs_weight |-> logs_weight,
            tests_weight |-> 100 - logs_weight,
            default_exam_date |-> strftime(Some(default_exam))])

\* settings.json as written by an older version, restored from a backup or
\* damaged: keys missing, or not JSON at all
ForeignSettingsFiles ==
    {SettingsFile([logs_weight |-> 50]),
     SettingsFile([logs_weight |-> 50, tests_weight |-> 30]),
     UnreadableFile}

\* settings.json as the engine may find it: four documents that load to
\* four different settings
SettingsFiles ==
    {SettingsFile(DEFAULT_SETTINGS), SettingsFile([logs_weight |-> 50])}
    \cup {SettingsFile(FormSettings(DEFAULT_SETTINGS, w, d)) :
            w \in LogsWeightChoices, d \in ExamDayChoices}

SubjectRows ==
    {[id |-> "s1", credits |-> 2, confidence |-> 2, exam_date |-> IsoDate(4), user_id |-> "u1"],
     [id |-> "s1", credits |-> 2, confidence |-> 8, exam_date |-> IsoDate(1), user_id |-> "u1"],
     [id |-> "s2", credits |-> 2, confidence |-> 10, exam_date |-> NoDate, user_id |-> "u1"],
     [id |-> "s2", credits |-> -1, confidence |-> 2, exam_date |-> BadDate, user_id |-> "u1"]}

LogRows ==
    {[id |-> "l1", subject_id |-> "s1", hours |-> 6, score |-> Some(80), user_id |-> "u1"],
     [id |-> "l2", subject_id |-> "s1", hours |-> 4, score |-> Some(100), user_id |-> "u1"],
     [id |-> "l3", subject_id |-> "s1", hours |-> 2, score |-> Null, user_id |-> "u1"],
     [id |-> "l4", subject_id |-> "zz", hours |-> 6, score |-> Some(90), user_id |-> "u1"]}

TestRows ==
    {[id |-> "t1", subject_id |-> "s1", score |-> Some(60), user_id |-> "u1"],
     [id |-> "t2", subject_id |-> "s2", score |-> Some(100), user_id |-> "u1"]}

\* every table of at most n rows
\* no save_df or load_df call under way, logs.csv complete, no logs.csv.tmp
NoDisk ==
    [path_complete |-> TRUE, tmp |-> Null, save |-> Null, load |-> Null,
     saved |-> Null, loaded |-> Null, crashed |-> FALSE]

\* empty Firestore collections
NoRemote == [subjects |-> <<>>, logs |-> <<>>, tests |-> <<>>]

Tables(rows, n) == UNION {[1..k -> rows] : k \in 0..n}

\* every table of at most n distinct rows, laid out in one order (each log
\* and test row has its own id, and sums and means do not read the order)
TablesOfDistinct(rows, n) ==
    {SetToSeq(S) : S \in {T \in SUBSET rows : Cardinality(T) <= n}}

InitMetrics ==
    /\ subjectsCsv \in Tables(SubjectRows, MaxSubjects)
    /\ logsCsv \in TablesOfDistinct(LogRows, MaxLogs)
    /\ testsCsv \in TablesOfDistinct(TestRows, MaxTests)
    /\ settingsJson \in SettingsFiles
    /\ firestore = FirebaseOff
    /\ saving = Null
    /\ imp = Null
    /\ disk = NoDisk
    /\ remote = NoRemote
    /\ accounts = <<>>
    /\ call = Null
    /\ today \in 1..LastDay
    /\ usersCsv = {"u1"}
    /\ user = Some("u1")
    /\ page = "dashboard"
    /\ cm = NoCall
    /\ ready = Null

NextMetrics ==
    \/ ComputeMetricsCall
    \/ WeightedReadinessCall

SpecMetrics == InitMetrics /\ [][NextMetrics]_vars

----------------------------------------------------------------------------
\* The settings file and the clock change between two calls of the engine

\* save_settings(s), run without interruption: settings.json, then Firestore
save_settings(s) ==
    /\ settingsJson' = SettingsFile(s)
    /\ firestore' = IF firestore.enabled THEN Firebase(Some(s)) ELSE firestore

\* A session saves the settings form
SaveSettingsCall(logs_weight, default_exam) ==
    /\ save_settings(FormSettings(load_settings, logs_weight, default_exam))
    /\ UNCHANGED <<call, disk, remote, accounts, imp, saving, subjectsCsv, logsCsv, testsCsv, today, usersCsv, user, page, cm, ready>>

\* A backup ZIP that holds a settings.json is extracted over the data folder
RestoreSettingsFile(file) ==
    /\ settingsJson' = file
    /\ UNCHANGED <<call, disk, remote, accounts, imp, firestore, saving, subjectsCsv, logsCsv, testsCsv, today, usersCsv, user, page, cm, ready>>

\* Midnight passes
NextDay ==
    /\ today < LastDay
    /\ today' = today + 1
    /\ UNCHANGED <<call, disk, remote, accounts, imp, firestore, saving, subjectsCsv, logsCsv, testsCsv, settingsJson, usersCsv, user, page, cm, ready>>

EnvLogRows == {r \in LogRows : r.id = "l1"}
EnvTestRows == {r \in TestRows : r.id = "t1"}

InitEnv ==
    /\ subjectsCsv \in Tables(SubjectRows, MaxSubjects)
    /\ logsCsv \in TablesOfDistinct(EnvLogRows, MaxLogs)
    /\ testsCsv \in TablesOfDistinct(EnvTestRows, MaxTests)
    /\ settingsJson = SettingsFile(DEFAULT_SETTINGS)
    /\ firestore = FirebaseOff
    /\ saving = Null
    /\ imp = Null
    /\ disk = NoDisk
    /\ remote = NoRemote
    /\ accounts = <<>>
    /\ call = Null
    /\ today = 1
    /\ usersCsv = {"u1"}
    /\ user = Some("u1")
    /\ page = "dashboard"
    /\ cm = NoCall
    /\ ready = Null

NextEnv ==
    \/ ComputeMetricsCall
    \/ \E w \in LogsWeightChoices, d \in ExamDayChoices : SaveSettingsCall(w, d)
    \/ \E f \in ForeignSettingsFiles : RestoreSettingsFile(f)
    \/ NextDay

SpecEnv == InitEnv /\ [][NextEnv]_vars

----------------------------------------------------------------------------
\* The engine on rows nobody normalized: subjects.csv as a backup restore or
\* an edit by hand leaves it. A credits or confidence cell is a number, is
\* missing (NaN), or is text that is not a number.

Num(n) == [kind |-> "num", val |-> n]
NaN == [kind |-> "nan", val |-> 0]
Text == [kind |-> "text", val |-> 0]

\* float(x) raises ValueError on text that is not a number
FloatRaises(cell) == cell.kind = "text"

\* the lambda of line 44 raises on a row
CalcPriorityRaises(r) == FloatRaises(r.credits) \/ FloatRaises(r.confidence)

\* float(nan) is nan, and so is every product with it
PriorityIsNaN(r) == r.credits.kind = "nan" \/ r.confidence.kind = "nan"

\* compute_metrics on such rows: the exception, or the table, in which the
\* priority and the priority_gap of a row with a missing cell are NaN ({})
ComputeMetricsOutcome(subjects, logs, tests) ==
    IF \E i \in DOMAIN subjects : CalcPriorityRaises(subjects[i])
    THEN [NoCall EXCEPT !.raised = TRUE, !.subjects = subjects,
                        !.logs = logs, !.tests = tests]
    ELSE LET numeric == [i \in DOMAIN subjects |->
                           [subjects[i] EXCEPT !.credits = @.val, !.confidence = @.val]]
         IN  [CallRecord(numeric, logs, tests) EXCEPT
                 !.subjects = subjects,
                 !.metrics =
                    [i \in DOMAIN @ |->
                        IF PriorityIsNaN(subjects[i])
                        THEN [@[i] EXCEPT !.credits = subjects[i].credits,
                                          !.confidence = subjects[i].confidence,
                                          !.priority = Null, !.priority_gap = Null]
                        ELSE [@[i] EXCEPT !.credits = subjects[i].credits,
                                          !.confidence = subjects[i].confidence,
                                          !.priority = Some(@), !.priority_gap = Some(@)]]]

\* A caller applies compute_metrics to the session's rows as they are stored
ComputeMetricsRawCall ==
    /\ cm' = ComputeMetricsOutcome(subjects_df, logs_df, tests_df)
    /\ ready' = Null
    /\ LoadSettingsWrites
    /\ UNCHANGED <<call, disk, remote, accounts, imp, saving, subjectsCsv, logsCsv, testsCsv, today, usersCsv, user, page>>

RawSubjectRows ==
    {[id |-> "s1", credits |-> Num(2), confidence |-> Num(8), exam_date |-> IsoDate(4), user_id |-> "u1"],
     [id |-> "s1", credits |-> Text, confidence |-> Num(5), exam_date |-> IsoDate(4), user_id |-> "u1"],
     [id |-> "s2", credits |-> Num(2), confidence |-> Text, exam_date |-> BadDate, user_id |-> "u1"],
     [id |-> "s2", credits |-> NaN, confidence |-> Num(5), exam_date |-> NoDate, user_id |-> "u1"],
     [id |-> "s3", credits |-> Num(2), confidence |-> NaN, exam_date |-> BadDate, user_id |-> "u1"]}

\* rows with scores outside [0, 100]
RawLogRows ==
    {[id |-> "l1", subject_id |-> "s1", hours |-> 6, score |-> Some(150), user_id |-> "u1"],
     [id |-> "l2", subject_id |-> "s1", hours |-> 4, score |-> Some(80), user_id |-> "u1"]}

RawTestRows ==
    {[id |-> "t1", subject_id |-> "s1", score |-> Some(150), user_id |-> "u1"],
     [id |-> "t2", subject_id |-> "s2", score |-> Some(-20), user_id |-> "u1"]}

InitRaw ==
    /\ subjectsCsv \in Tables(RawSubjectRows, MaxSubjects)
    /\ logsCsv \in TablesOfDistinct(RawLogRows, MaxLogs)
    /\ testsCsv \in TablesOfDistinct(RawTestRows, MaxTests)
    /\ settingsJson = SettingsFile(DEFAULT_SETTINGS)
    /\ firestore = FirebaseOff
    /\ saving = Null
    /\ imp = Null
    /\ disk = NoDisk
    /\ remote = NoRemote
    /\ accounts = <<>>
    /\ call = Null
    /\ today \in 1..LastDay
    /\ usersCsv = {"u1"}
    /\ user = Some("u1")
    /\ page = "dashboard"
    /\ cm = NoCall
    /\ ready = Null

NextRaw == ComputeMetricsRawCall

SpecRaw == InitRaw /\ [][NextRaw]_vars

----------------------------------------------------------------------------
\* The settings stores: the engine called from one session while another
\* session saves the settings form, with and without Firebase

\* app_settings/default as the engine may find it
FirestoreStates ==
    {FirebaseOff, Firebase(Null), Firebase(Some([logs_weight |-> 50]))}
    \cup {Firebase(Some(FormSettings(DEFAULT_SETTINGS, w, d))) :
            w \in LogsWeightChoices, d \in ExamDayChoices}

\* save_settings(s) begins: Path.write_text opens settings.json for writing,
\* which empties it (the handler has loaded the settings before)
SaveSettingsOpen(logs_weight, default_exam) ==
    /\ IsNull(saving)
    /\ saving' = Some([before |-> settingsJson,
                       doc |-> FormSettings(load_settings, logs_weight, default_exam),
                       pc |-> "write"])
    /\ settingsJson' = UnreadableFile
    /\ firestore' = IF firestore.enabled /\ IsNull(firestore.settings)
                    THEN Firebase(Some(DEFAULT_SETTINGS))
                    ELSE firestore
    /\ UNCHANGED <<call, disk, remote, accounts, imp, subjectsCsv, logsCsv, testsCsv, today, usersCsv, user, page, cm, ready>>

\* write_text writes the document and closes the file
SaveSettingsWrite ==
    /\ NotNa(saving)
    /\ Val(saving).pc = "write"
    /\ settingsJson' = SettingsFile(Val(saving).doc)
    /\ saving' = IF firestore.enabled
                  THEN Some([Val(saving) EXCEPT !.pc = "remote"])
                  ELSE Null
    /\ UNCHANGED <<call, disk, remote, accounts, imp, firestore, subjectsCsv, logsCsv, testsCsv, today, usersCsv, user, page, cm, ready>>

\* _firestore_save_settings(s): ref.set(dict(s))
SaveSettingsRemote ==
    /\ NotNa(saving)
    /\ Val(saving).pc = "remote"
    /\ firestore' = Firebase(Some(Val(saving).doc))
    /\ saving' = Null
    /\ UNCHANGED <<call, disk, remote, accounts, imp, settingsJson, subjectsCsv, logsCsv, testsCsv, today, usersCsv, user, page, cm, ready>>

InitStore ==
    /\ subjectsCsv \in Tables(SubjectRows, MaxSubjects)
    /\ logsCsv \in TablesOfDistinct(EnvLogRows, MaxLogs)
    /\ testsCsv \in TablesOfDistinct(EnvTestRows, MaxTests)
    /\ settingsJson \in SettingsFiles
    /\ firestore \in FirestoreStates
    /\ saving = Null
    /\ imp = Null
    /\ disk = NoDisk
    /\ remote = NoRemote
    /\ accounts = <<>>
    /\ call = Null
    /\ today = 1
    /\ usersCsv = {"u1"}
    /\ user = Some("u1")
    /\ page = "dashboard"
    /\ cm = NoCall
    /\ ready = Null

NextStore ==
    \/ ComputeMetricsCall
    \/ \E w \in LogsWeightChoices, d \in ExamDayChoices : SaveSettingsOpen(w, d)
    \/ SaveSettingsWrite
    \/ SaveSettingsRemote

SpecStore == InitStore /\ [][NextStore]_vars

----------------------------------------------------------------------------
\* The application: one session of the Streamlit script over the local store

\* The first SeedSubjects rows of INITIAL_SUBJECTS, as ensure_store writes
\* them on first run (unclaimed, exam_date = the default exam date)
SeedSubjects == 1

\* the stores hold at most this many rows
MaxStoredSubjects == 2
MaxStoredLogs == 1
MaxStoredTests == 1

SeedIds ==
    <<"chem-eng-basics", "micro-scatter", "org-synthesis", "adv-thermo",
      "paint-tech", "tyre-tech", "fibre-tech", "textile-fibres">>
SeedConfidence == <<8, 8, 2, 6, 8, 7, 5, 7>>

INITIAL_SUBJECTS ==
    [i \in 1..Min(SeedSubjects, Len(SeedIds)) |->
        [id |-> SeedIds[i], credits |-> 2, confidence |-> SeedConfidence[i],
         exam_date |-> DEFAULT_SETTINGS.default_exam_date, user_id |-> ""]]

Pages == {"dashboard", "subjects", "daily_log", "self_tests", "settings"}

\* str(uuid.uuid4()): an id no row of the table carries
Uuids == <<"uuid-1", "uuid-2", "uuid-3", "uuid-4", "uuid-5", "uuid-6">>
Ids(rows) == {rows[i].id : i \in DOMAIN rows}
uuid4(used) ==
    Uuids[CHOOSE i \in DOMAIN Uuids :
            /\ Uuids[i] \notin used
            /\ \A j \in 1..(i - 1) : Uuids[j] \in used]

\* df[df.user_id != uid]
Others(rows, uid) == SelectSeq(rows, LAMBDA r : r.user_id /= uid)
\* df["user_id"] = uid
SetUser(rows, uid) == [i \in DOMAIN rows |-> [rows[i] EXCEPT !.user_id = uid]]

\* drop_duplicates(subset=["id"], keep="last")
drop_duplicates(rows) ==
    LET keep == {i \in DOMAIN rows :
                    \A j \in DOMAIN rows : j > i => rows[j].id /= rows[i].id}
        N == Cardinality(keep)
        pos == CHOOSE f \in [1..N -> keep] :
                   \A a, b \in 1..N : a < b => f[a] < f[b]
    IN  [k \in 1..N |-> rows[pos[k]]]

\* sanitize_subjects_for_editor(df, settings): what the editor shows
sanitize_subjects_for_editor(df, settings) ==
    LET default_date ==
            LET d == to_datetime(Get(settings, "default_exam_date", IsoDate(3)))
            IN  IF NotNa(d) THEN Val(d) ELSE today
    IN  [i \in DOMAIN df |->
            LET d == to_datetime(df[i].exam_date)
            IN  [df[i] EXCEPT
                    !.confidence = Max(0, Min(10, @)),
                    !.exam_date = IsoDate(IF NotNa(d) THEN Val(d) ELSE default_date)]]

\* One run of the script: the sidebar calls compute_metrics on the session's
\* rows, then the page renders; the Subjects page ends with a call on the
\* editor's rows and the Dashboard with weighted_readiness
LastCall ==
    IF page = "subjects"
    THEN CallRecord(sanitize_subjects_for_editor(subjects_df, load_settings),
                    logs_df, tests_df)
    ELSE CallRecord(subjects_df, logs_df, tests_df)

Shown(metrics) ==
    IF page = "dashboard"
    THEN Some(IF metrics /= <<>> THEN weighted_readiness(metrics) ELSE RZero)
    ELSE Null

\* st.rerun(): the handler's run is abandoned, nothing of it stays on screen
Rerun ==
    /\ cm' = NoCall
    /\ ready' = Null

\* a widget is live once the script has run to its end
Rendered == cm.valid

\* The script runs again on the state the handler left
ScriptRun ==
    /\ ~Rendered
    /\ cm' = LastCall
    /\ ready' = Shown(cm'.metrics)
    /\ UNCHANGED <<call, disk, remote, accounts, imp, firestore, saving, subjectsCsv, logsCsv, testsCsv, settingsJson, today, usersCsv, user, page>>

\* the pandas the script runs on (no version is pinned): Series.astype(str)
\* turns a missing value into the text "nan" before pandas 3 and keeps it
\* missing from pandas 3 on
PandasBuilds == {"2", "3"}

\* pd.read_csv of a user_id field: an empty field is NaN
read_csv_user_id(field) == IF field = "" THEN Null ELSE Some(field)

\* Series.astype(str) of a cell
astype_str(cell, pandas) ==
    IF NotNa(cell) THEN cell
    ELSE IF pandas = "2" THEN Some("nan") ELSE Null

\* Series.fillna("") of a cell
fillna_blank(cell) == IF NotNa(cell) THEN Val(cell) ELSE ""

\* claim_legacy_rows_for_user(user_id) on the rows load_df reads from a CSV:
\* mask = df["user_id"].astype(str).fillna("") == ""
claim_legacy_rows_for_user(rows, user_id, pandas) ==
    [i \in DOMAIN rows |->
        IF fillna_blank(astype_str(read_csv_user_id(rows[i].user_id), pandas)) = ""
        THEN [rows[i] EXCEPT !.user_id = user_id]
        ELSE rows[i]]

\* Sidebar: Create account
CreateAccount(u) ==
    /\ Rendered
    /\ u \notin usersCsv
    /\ usersCsv' = usersCsv \cup {u}
    /\ user' = Some(u)
    /\ UNCHANGED <<call, disk, remote, accounts, imp, firestore, saving, subjectsCsv, logsCsv, testsCsv, settingsJson, today, page>>
    /\ Rerun

\* Sidebar: Sign in (the password matches)
SignIn(u) ==
    /\ Rendered
    /\ u \in usersCsv
    /\ user' = Some(u)
    /\ \E pandas \in PandasBuilds :
          /\ subjectsCsv' = claim_legacy_rows_for_user(subjectsCsv, u, pandas)
          /\ logsCsv' = claim_legacy_rows_for_user(logsCsv, u, pandas)
          /\ testsCsv' = claim_legacy_rows_for_user(testsCsv, u, pandas)
    /\ UNCHANGED <<call, disk, remote, accounts, imp, firestore, saving, settingsJson, today, usersCsv, page>>
    /\ Rerun

\* Sidebar: Sign out
SignOut ==
    /\ Rendered
    /\ NotNa(user)
    /\ user' = Null
    /\ UNCHANGED <<call, disk, remote, accounts, imp, firestore, saving, subjectsCsv, logsCsv, testsCsv, settingsJson, today, usersCsv, page>>
    /\ Rerun

\* Sidebar: Navigate
Navigate(p) ==
    /\ Rendered
    /\ p /= page
    /\ page' = p
    /\ UNCHANGED <<call, disk, remote, accounts, imp, firestore, saving, subjectsCsv, logsCsv, testsCsv, settingsJson, today, usersCsv, user>>
    /\ Rerun

\* the Subjects page writes the editor's rows back
SaveEdited(edited) ==
    LET dated == [i \in DOMAIN edited |->
                    [edited[i] EXCEPT !.exam_date = strftime(to_datetime(@))]]
    IN  IF NotNa(user)
        THEN subjectsCsv' = Others(subjectsCsv, Val(user)) \o SetUser(dated, Val(user))
        ELSE subjectsCsv' = dated

\* Subjects page: Add subject
AddSubject ==
    /\ Rendered
    /\ page = "subjects"
    /\ Len(subjectsCsv) < MaxStoredSubjects
    /\ LET settings == load_settings
           edited == sanitize_subjects_for_editor(subjects_df, settings)
           new == [id |-> uuid4(Ids(subjectsCsv)), credits |-> 2, confidence |-> 5,
                   exam_date |-> Get(settings, "default_exam_date",
                                     DEFAULT_SETTINGS.default_exam_date),
                   user_id |-> IF NotNa(user) THEN Val(user) ELSE ""]
       IN  SaveEdited(Append(edited, new))
    /\ UNCHANGED <<call, disk, remote, accounts, imp, firestore, saving, logsCsv, testsCsv, settingsJson, today, usersCsv, user, page>>
    /\ Rerun

\* what the user types into a cell of the editor (credits >= 1, confidence
\* in 0..10), or which row the user deletes
CreditsChoices == {1}
ConfidenceChoices == {10}

EditorEdits(shown) ==
    {shown}
    \cup {[shown EXCEPT ![i].credits = c] : i \in DOMAIN shown, c \in CreditsChoices}
    \cup {[shown EXCEPT ![i].confidence = c] : i \in DOMAIN shown, c \in ConfidenceChoices}
    \cup {SelectSeq(shown, LAMBDA r : r.id /= shown[i].id) : i \in DOMAIN shown}

\* Subjects page: Save changes
SaveChanges(edited) ==
    /\ Rendered
    /\ page = "subjects"
    /\ SaveEdited(edited)
    /\ UNCHANGED <<call, disk, remote, accounts, imp, firestore, saving, logsCsv, testsCsv, settingsJson, today, usersCsv, user, page>>
    /\ Rerun

\* what the Daily Log and Self-Tests forms can hold
HoursChoices == {6}
LogScoreChoices == {0, 80}
TestScoreChoices == {100}

\* Daily Log page: Add entry
AddLog(subject_id, hours, score) ==
    /\ Rendered
    /\ page = "daily_log"
    /\ NotNa(user)
    /\ Len(logsCsv) < MaxStoredLogs
    /\ logsCsv' = Append(logsCsv,
            [id |-> uuid4(Ids(logsCsv)), subject_id |-> subject_id, hours |-> hours,
             score |-> IF score /= 0 THEN Some(score) ELSE Null,
             user_id |-> Val(user)])
    /\ UNCHANGED <<call, disk, remote, accounts, imp, firestore, saving, subjectsCsv, testsCsv, settingsJson, today, usersCsv, user, page>>
    /\ Rerun

\* Self-Tests page: Add test
AddTest(subject_id, score) ==
    /\ Rendered
    /\ page = "self_tests"
    /\ NotNa(user)
    /\ Len(testsCsv) < MaxStoredTests
    /\ testsCsv' = Append(testsCsv,
            [id |-> uuid4(Ids(testsCsv)), subject_id |-> subject_id,
             score |-> Some(score), user_id |-> Val(user)])
    /\ UNCHANGED <<call, disk, remote, accounts, imp, firestore, saving, subjectsCsv, logsCsv, settingsJson, today, usersCsv, user, page>>
    /\ Rerun

\* what the session puts into the settings form
FormLogsWeights == {100}
FormExamDays == {3}

\* Settings page: Save settings
SaveSettings(logs_weight, default_exam, apply_to_empty) ==
    /\ Rendered
    /\ page = "settings"
    /\ LET settings == FormSettings(load_settings, logs_weight, default_exam)
       IN  /\ save_settings(settings)
           /\ subjectsCsv' =
                IF apply_to_empty
                THEN [i \in DOMAIN subjectsCsv |->
                        LET d == to_datetime(subjectsCsv[i].exam_date)
                        IN  [subjectsCsv[i] EXCEPT !.exam_date =
                                strftime(IF NotNa(d) THEN d
                                         ELSE to_datetime(settings.default_exam_date))]]
                ELSE subjectsCsv
    /\ UNCHANGED <<call, disk, remote, accounts, imp, saving, logsCsv, testsCsv, today, usersCsv, user, page>>
    /\ Rerun

\* Series.astype(int) on a float: the fraction is cut off, towards zero
astype_int(q) ==
    IF q[1] >= 0 THEN q[1] \div q[2] ELSE -((-q[1]) \div q[2])

\* Series.round(): to the nearest integer, a half to the even neighbour
round(q) ==
    LET f == q[1] \div q[2]
        twice == 2 * (q[1] - f * q[2])
    IN  IF twice < q[2] THEN f
        ELSE IF twice > q[2] THEN f + 1
        ELSE IF f % 2 = 0 THEN f ELSE f + 1

\* Series.clip(lo, hi) on one integer
clip(x, lo, hi) == Max(lo, Min(hi, x))

\* The cells of an uploaded CSV: a numeric cell is {} when it is missing or
\* not a number (pd.to_numeric(errors="coerce") gives NaN), or holds the
\* number; credits and confidence as exact rationals, hours in quarter
\* hours, scores in whole percent.

\* pd.to_numeric(credits, errors="coerce").fillna(1).astype(int)
NormalizeCredits(cell) == IF NotNa(cell) THEN astype_int(Val(cell)) ELSE 1

\* a faulty variant, not the code: a confidence outside [0, 10] is dropped like a missing one
NormalizeConfidence_rejecting(cell) ==
    IF NotNa(cell) /\ round(Val(cell)) \in 0..10 THEN round(Val(cell)) ELSE 5

\* pd.to_numeric(confidence, errors="coerce").fillna(5).round().clip(0, 10).astype(int)
NormalizeConfidence(cell) ==
    clip(round(IF NotNa(cell) THEN Val(cell) ELSE RInt(5)), 0, 10)

\* pd.to_numeric(hours, errors="coerce").fillna(0.0)
NormalizeLogHours(cell) == IF NotNa(cell) THEN Val(cell) ELSE 0

\* a faulty variant, not the code: a log score is clipped like a test score
NormalizeLogScore_clipping(cell) ==
    IF NotNa(cell) THEN Some(clip(Val(cell), 0, 100)) ELSE Null

\* pd.to_numeric(score, errors="coerce"), then NaN where score < 0 or score > 100
NormalizeLogScore(cell) ==
    IF NotNa(cell) /\ (Val(cell) < 0 \/ Val(cell) > 100) THEN Null ELSE cell

\* a faulty variant, not the code: the score is only coerced to a number
NormalizeTestScore_noclip(cell) == cell

\* pd.to_numeric(score, errors="coerce").clip(0, 100)
NormalizeTestScore(cell) ==
    IF NotNa(cell) THEN Some(clip(Val(cell), 0, 100)) ELSE Null

\* the ids after "blank ids get str(uuid.uuid4())": the row's own id, or a
\* fresh one for each blank id
fill_blank_ids(df, used) ==
    LET blank == SelectSeq([i \in DOMAIN df |-> i], LAMBDA i : df[i].id = "")
        RECURSIVE fresh(_, _)
        fresh(k, taken) ==
            IF k = 0 THEN <<>>
            ELSE LET id == uuid4(taken) IN <<id>> \o fresh(k - 1, taken \cup {id})
        ids == fresh(Len(blank), used \cup Ids(df))
        nth(i) == CHOOSE k \in DOMAIN blank : blank[k] = i
    IN  [i \in DOMAIN df |-> IF df[i].id = "" THEN ids[nth(i)] ELSE df[i].id]

\* normalize_subjects_df(df, default_exam, user_id) on the rows of an uploaded CSV
normalize_subjects_df(df, default_exam, user_id, used) ==
    LET def_exam == to_datetime(default_exam)
        ids == fill_blank_ids(df, used)
    IN  [i \in DOMAIN df |->
            LET d == to_datetime(df[i].exam_date)
            IN  [id |-> ids[i],
                 credits |-> NormalizeCredits(df[i].credits),
                 confidence |-> NormalizeConfidence(df[i].confidence),
                 exam_date |-> strftime(IF NotNa(d) THEN d ELSE def_exam),
                 user_id |-> IF NotNa(user_id) THEN Val(user_id) ELSE df[i].user_id]]

\* normalize_logs_df(df, user_id)
normalize_logs_df(df, user_id, used) ==
    LET ids == fill_blank_ids(df, used)
    IN  [i \in DOMAIN df |->
            [id |-> ids[i],
             subject_id |-> df[i].subject_id,
             hours |-> NormalizeLogHours(df[i].hours),
             score |-> NormalizeLogScore(df[i].score),
             user_id |-> IF NotNa(user_id) THEN Val(user_id) ELSE df[i].user_id]]

\* normalize_tests_df(df, user_id)
normalize_tests_df(df, user_id, used) ==
    LET ids == fill_blank_ids(df, used)
    IN  [i \in DOMAIN df |->
            [id |-> ids[i],
             subject_id |-> df[i].subject_id,
             score |-> NormalizeTestScore(df[i].score),
             user_id |-> IF NotNa(user_id) THEN Val(user_id) ELSE df[i].user_id]]

\* _append_current_user(existing, incoming, uid)
\* a faulty variant, not the code: duplicate ids are dropped over the whole
\* table, the other users' rows included
_append_current_user_global(existing, incoming, uid) ==
    IF IsNull(uid) THEN drop_duplicates(existing \o incoming)
    ELSE drop_duplicates(existing \o SetUser(incoming, Val(uid)))

_append_current_user(existing, incoming, uid) ==
    IF IsNull(uid) THEN drop_duplicates(existing \o incoming)
    ELSE Others(existing, Val(uid))
         \o drop_duplicates(SelectSeq(existing, LAMBDA r : r.user_id = Val(uid))
                            \o SetUser(incoming, Val(uid)))

\* _merge_replace_current_user(existing, incoming, uid)
_merge_replace_current_user(existing, incoming, uid) ==
    IF IsNull(uid) THEN incoming
    ELSE Others(existing, Val(uid))
         \o drop_duplicates(SelectSeq(existing, LAMBDA r : r.user_id = Val(uid))
                            \o SetUser(incoming, Val(uid)))

ImportModes == {"append", "replace_user", "replace_file"}

\* The script launch.py runs defines its own normalizer and merge helpers
\* beside the Run import button; they differ from those of core/normalize.py.

\* pd.to_numeric(confidence, errors="coerce").fillna(5).clip(0,10).astype(int)
app_normalize_confidence(cell) ==
    LET x == IF NotNa(cell) THEN Val(cell) ELSE RInt(5)
    IN  IF x[1] < 0 THEN 0
        ELSE IF x[1] > 10 * x[2] THEN 10
        ELSE astype_int(x)

\* the script's normalize_subjects_df(df, default_exam, uid_or_none): a
\* blank id cell is NaN after read_csv and "nan" after astype(str)
app_normalize_subjects_df(df, default_exam, uid_or_none) ==
    LET def_exam == to_datetime(default_exam)
    IN  [i \in DOMAIN df |->
            LET d == to_datetime(df[i].exam_date)
            IN  [id |-> IF df[i].id = "" THEN "nan" ELSE df[i].id,
                 credits |-> NormalizeCredits(df[i].credits),
                 confidence |-> app_normalize_confidence(df[i].confidence),
                 exam_date |-> strftime(IF NotNa(d) THEN d ELSE def_exam),
                 user_id |-> IF NotNa(uid_or_none) THEN Val(uid_or_none)
                             ELSE df[i].user_id]]

\* the script's _merge_replace_current_user(existing, incoming, uid)
app_merge_replace_current_user(existing, incoming, uid) ==
    Others(existing, Val(uid)) \o incoming

\* the script's _append_current_user(existing, incoming, uid)
app_append_current_user(existing, incoming, uid) ==
    LET cur == SelectSeq(existing, LAMBDA r : r.user_id = Val(uid))
        others == Others(existing, Val(uid))
        kept == SelectSeq(cur, LAMBDA r : r.id \notin Ids(incoming))
    IN  others \o kept \o incoming

\* subjects.csv files a user uploads
ImportSubjectsFiles ==
    {<<[id |-> "", credits |-> Some(RInt(-1)), confidence |-> Some(RInt(-3)),
        exam_date |-> BadDate, user_id |-> ""]>>}

\* Settings page: Run import with a subjects.csv
RunImport(import_mode, f1) ==
    /\ Rendered
    /\ page = "settings"
    /\ import_mode = "replace_file" \/ NotNa(user)
    /\ LET uid == user
           default_exam == Get(load_settings, "default_exam_date",
                               DEFAULT_SETTINGS.default_exam_date)
           incoming == app_normalize_subjects_df(
                           f1, default_exam,
                           IF import_mode /= "replace_file" THEN uid ELSE Null)
           merged == IF import_mode = "replace_file" THEN incoming
                     ELSE IF import_mode = "replace_user"
                          THEN app_merge_replace_current_user(subjectsCsv, incoming, uid)
                          ELSE app_append_current_user(subjectsCsv, incoming, uid)
       IN  /\ Len(merged) <= MaxStoredSubjects
           /\ subjectsCsv' = merged
    /\ UNCHANGED <<call, disk, remote, accounts, imp, firestore, saving, logsCsv, testsCsv, settingsJson, today, usersCsv, user, page>>
    /\ Rerun

Init ==
    /\ subjectsCsv = INITIAL_SUBJECTS
    /\ logsCsv = <<>>
    /\ testsCsv = <<>>
    /\ settingsJson = SettingsFile(DEFAULT_SETTINGS)
    /\ firestore = FirebaseOff
    /\ saving = Null
    /\ imp = Null
    /\ disk = NoDisk
    /\ remote = NoRemote
    /\ accounts = <<>>
    /\ call = Null
    /\ today = 1
    /\ usersCsv = {}
    /\ user = Null
    /\ page = "dashboard"
    /\ cm = LastCall
    /\ ready = Shown(cm.metrics)

Next ==
    \/ \E u \in Users : CreateAccount(u)
    \/ \E u \in Users : SignIn(u)
    \/ SignOut
    \/ \E p \in Pages : Navigate(p)
    \/ AddSubject
    \/ \E edited \in EditorEdits(sanitize_subjects_for_editor(subjects_df, load_settings)) :
            SaveChanges(edited)
    \/ \E id \in Ids(subjects_df), h \in HoursChoices, sc \in LogScoreChoices :
            AddLog(id, h, sc)
    \/ \E id \in Ids(subjects_df), sc \in TestScoreChoices : AddTest(id, sc)
    \/ \E w \in FormLogsWeights, d \in FormExamDays, apply \in BOOLEAN :
            SaveSettings(w, d, apply)
    \/ \E m \in ImportModes, f1 \in ImportSubjectsFiles : RunImport(m, f1)
    \/ ScriptRun

Spec == Init /\ [][Next]_vars

----------------------------------------------------------------------------
\* Import and entry of rows (core/normalize.py behind the Settings page's
\* Run import, the Daily Log and Self-Test pages), then the metrics

MaxImportedRows == 3

\* subjects.csv files a user uploads: confidence above, below and inside the
\* range, missing and fractional; credits zero, a fraction, missing
SubjectsFileA ==
    <<[id |-> "s1", credits |-> Some(RInt(2)), confidence |-> Some(RInt(12)),
       exam_date |-> IsoDate(4), user_id |-> ""],
      [id |-> "", credits |-> Some(RInt(0)), confidence |-> Some(RInt(-3)),
       exam_date |-> BadDate, user_id |-> ""]>>
SubjectsFileB ==
    <<[id |-> "s1", credits |-> Null, confidence |-> Null,
       exam_date |-> NoDate, user_id |-> ""],
      [id |-> "s2", credits |-> Some(Rat(1, 2)), confidence |-> Some(Rat(15, 2)),
       exam_date |-> IsoDate(4), user_id |-> ""]>>

\* logs.csv files a user uploads: scores above and below the range, hours
\* negative and missing
LogsFileA ==
    <<[id |-> "l1", subject_id |-> "s1", hours |-> Some(6), score |-> Some(150), user_id |-> ""],
      [id |-> "l2", subject_id |-> "s1", hours |-> Some(4), score |-> Some(80), user_id |-> ""]>>
LogsFileB ==
    <<[id |-> "", subject_id |-> "s1", hours |-> Some(-8), score |-> Some(-5), user_id |-> ""],
      [id |-> "l3", subject_id |-> "s1", hours |-> Null, score |-> Null, user_id |-> ""]>>

\* tests.csv files a user uploads: scores above and below the range, missing
TestsFileA ==
    <<[id |-> "t1", subject_id |-> "s1", score |-> Some(150), user_id |-> ""],
      [id |-> "t2", subject_id |-> "s1", score |-> Some(60), user_id |-> ""]>>
TestsFileB ==
    <<[id |-> "", subject_id |-> "s1", score |-> Some(-20), user_id |-> ""],
      [id |-> "t3", subject_id |-> "s1", score |-> Null, user_id |-> ""]>>

\* what the three file_uploader widgets can hold ({}: no file)
ImportUploads ==
    {<<Some(SubjectsFileA), Null, Null>>, <<Some(SubjectsFileB), Null, Null>>,
     <<Null, Some(LogsFileA), Null>>, <<Null, Some(LogsFileB), Null>>,
     <<Null, Null, Some(TestsFileA)>>, <<Null, Null, Some(TestsFileB)>>,
     <<Some(SubjectsFileA), Some(LogsFileA), Some(TestsFileA)>>}

\* the import form as filled in, before Run import is pressed
ImportForm(import_mode, f1, f2, f3) ==
    Some([import_mode |-> import_mode, f1 |-> f1, f2 |-> f2, f3 |-> f3,
          ran |-> FALSE, subjects |-> <<>>, logs |-> <<>>, tests |-> <<>>])

\* the store after one file's import in the chosen mode
Imported(import_mode, existing, incoming, uid) ==
    IF import_mode = "replace_file" THEN incoming
    ELSE IF import_mode = "replace_user"
         THEN _merge_replace_current_user(existing, incoming, uid)
         ELSE _append_current_user(existing, incoming, uid)

\* Settings page: Run import with the uploaded files
RunImportFiles ==
    /\ NotNa(imp)
    /\ Val(imp).import_mode = "replace_file" \/ NotNa(user)
    /\ LET import_mode == Val(imp).import_mode
           f1 == Val(imp).f1
           f2 == Val(imp).f2
           f3 == Val(imp).f3
           uid == user
           as == IF import_mode /= "replace_file" THEN uid ELSE Null
           default_exam == Get(load_settings, "default_exam_date",
                               DEFAULT_SETTINGS.default_exam_date)
           subjects == IF NotNa(f1)
                       THEN normalize_subjects_df(Val(f1), default_exam, as, Ids(subjectsCsv))
                       ELSE <<>>
           logs == IF NotNa(f2) THEN normalize_logs_df(Val(f2), as, Ids(logsCsv)) ELSE <<>>
           tests == IF NotNa(f3) THEN normalize_tests_df(Val(f3), as, Ids(testsCsv)) ELSE <<>>
           newSubjects == IF NotNa(f1) THEN Imported(import_mode, subjectsCsv, subjects, uid)
                          ELSE subjectsCsv
           newLogs == IF NotNa(f2) THEN Imported(import_mode, logsCsv, logs, uid)
                      ELSE logsCsv
           newTests == IF NotNa(f3) THEN Imported(import_mode, testsCsv, tests, uid)
                       ELSE testsCsv
       IN  /\ Len(newSubjects) <= MaxImportedRows
           /\ Len(newLogs) <= MaxImportedRows
           /\ Len(newTests) <= MaxImportedRows
           /\ subjectsCsv' = newSubjects
           /\ logsCsv' = newLogs
           /\ testsCsv' = newTests
           /\ imp' = Some([Val(imp) EXCEPT !.ran = TRUE, !.subjects = subjects,
                                           !.logs = logs, !.tests = tests])
    /\ UNCHANGED <<call, disk, remote, accounts, firestore, saving, settingsJson, today, usersCsv, user, page>>
    /\ Rerun

\* Daily Log page: Add entry
DailyLogAdd(subj_id, hours, score) ==
    /\ NotNa(user)
    /\ Len(logsCsv) < MaxImportedRows
    /\ logsCsv' = Append(logsCsv,
            [id |-> uuid4(Ids(logsCsv)), subject_id |-> subj_id, hours |-> hours,
             score |-> IF score /= 0 THEN Some(score) ELSE Null,
             user_id |-> Val(user)])
    /\ UNCHANGED <<call, disk, remote, accounts, imp, firestore, saving, subjectsCsv, testsCsv, settingsJson, today, usersCsv, user, page>>
    /\ Rerun

\* what the logs editor can hold at Save edits: the session's rows as they
\* are stored, or with one row's cells set within the columns' limits
\* (hours min_value 0.0, score 0..100)
EditedLogViews(shown) ==
    {shown} \cup
    {[shown EXCEPT ![i] = [@ EXCEPT !.hours = Some(h), !.score = sc]] :
        i \in DOMAIN shown, h \in {2}, sc \in {Some(100)}}

\* the editor's table: numeric columns as cells
LogsEditorRows(rows) == [i \in DOMAIN rows |-> [rows[i] EXCEPT !.hours = Some(@)]]

\* Daily Log page: Save edits
DailyLogSaveEdits(edited_view) ==
    /\ NotNa(user)
    /\ LET uid == Val(user)
           ids == fill_blank_ids(edited_view, Ids(logsCsv))
           edited == [i \in DOMAIN edited_view |->
                        [id |-> ids[i],
                         subject_id |-> edited_view[i].subject_id,
                         hours |-> NormalizeLogHours(edited_view[i].hours),
                         score |-> edited_view[i].score,
                         user_id |-> uid]]
       IN  logsCsv' = Others(logsCsv, uid) \o edited
    /\ UNCHANGED <<call, disk, remote, accounts, imp, firestore, saving, subjectsCsv, testsCsv, settingsJson, today, usersCsv, user, page>>
    /\ Rerun

\* Self-Test page: Add test
SelfTestsAdd(subj_id, score) ==
    /\ NotNa(user)
    /\ Len(testsCsv) < MaxImportedRows
    /\ testsCsv' = Append(testsCsv,
            [id |-> uuid4(Ids(testsCsv)), subject_id |-> subj_id,
             score |-> Some(score), user_id |-> Val(user)])
    /\ UNCHANGED <<call, disk, remote, accounts, imp, firestore, saving, subjectsCsv, logsCsv, settingsJson, today, usersCsv, user, page>>
    /\ Rerun

\* the subjects before any import: one subject of the account and one
\* unclaimed subject
StoredSubjects ==
    <<[id |-> "s1", credits |-> 2, confidence |-> 2, exam_date |-> IsoDate(4), user_id |-> ""],
      [id |-> "s1", credits |-> 2, confidence |-> 8, exam_date |-> IsoDate(4), user_id |-> "u1"]>>

InitImport ==
    /\ subjectsCsv = StoredSubjects
    /\ logsCsv = <<>>
    /\ testsCsv = <<>>
    /\ settingsJson = SettingsFile(DEFAULT_SETTINGS)
    /\ firestore = FirebaseOff
    /\ saving = Null
    /\ imp \in {ImportForm(m, u[1], u[2], u[3]) : m \in ImportModes, u \in ImportUploads}
    /\ disk = NoDisk
    /\ remote = NoRemote
    /\ accounts = <<>>
    /\ call = Null
    /\ today = 1
    /\ usersCsv = {"u1"}
    /\ user \in {Null, Some("u1")}
    /\ page = "settings"
    /\ cm = NoCall
    /\ ready = Null

NextImport ==
    \/ RunImportFiles
    \/ \E h \in HoursChoices, sc \in LogScoreChoices : DailyLogAdd("s1", h, sc)
    \/ \E e \in EditedLogViews(LogsEditorRows(logs_df)) : DailyLogSaveEdits(e)
    \/ \E sc \in TestScoreChoices : SelfTestsAdd("s1", sc)
    \/ ComputeMetricsCall

SpecImport == InitImport /\ [][NextImport]_vars

----------------------------------------------------------------------------
\* The subjects store under several accounts: Add subject and Save changes
\* (app_pages/subjects.py) and Run import of a subjects.csv
\* (app_pages/settings_backup.py with core/normalize.py)

MaxSubjectRows == 2

SubjectsAccounts == {"u1", "u2"}

\* subjects.csv files the accounts upload: one a user exported and passed
\* on, one whose id column is blank
ExportedSubjects ==
    <<[id |-> "s1", credits |-> Some(RInt(2)), confidence |-> Some(RInt(7)),
       exam_date |-> IsoDate(4), user_id |-> "u1"]>>
BlankIdSubjects ==
    <<[id |-> "", credits |-> Some(RInt(3)), confidence |-> Some(RInt(4)),
       exam_date |-> IsoDate(4), user_id |-> ""]>>
SubjectsUploads == {ExportedSubjects, BlankIdSubjects}

\* Sidebar: Sign in as u
SubjectsSignIn(u) ==
    /\ user' = Some(u)
    /\ \E pandas \in PandasBuilds :
          subjectsCsv' = claim_legacy_rows_for_user(subjectsCsv, u, pandas)
    /\ UNCHANGED <<call, disk, remote, accounts, imp, firestore, saving, logsCsv, testsCsv,
                   settingsJson, today, usersCsv, page>>
    /\ Rerun

\* Sidebar: Sign out
SubjectsSignOut ==
    /\ NotNa(user)
    /\ user' = Null
    /\ UNCHANGED <<call, disk, remote, accounts, imp, firestore, saving, subjectsCsv, logsCsv,
                   testsCsv, settingsJson, today, usersCsv, page>>
    /\ Rerun

\* Subjects page: Add subject
SubjectsAdd ==
    /\ Len(subjectsCsv) < MaxSubjectRows
    /\ LET settings == load_settings
           edited == sanitize_subjects_for_editor(subjects_df, settings)
           new == [id |-> uuid4(Ids(subjectsCsv)), credits |-> 2, confidence |-> 5,
                   exam_date |-> Get(settings, "default_exam_date",
                                     DEFAULT_SETTINGS.default_exam_date),
                   user_id |-> IF NotNa(user) THEN Val(user) ELSE ""]
       IN  SaveEdited(Append(edited, new))
    /\ UNCHANGED <<call, disk, remote, accounts, imp, firestore, saving, logsCsv, testsCsv,
                   settingsJson, today, usersCsv, user, page>>
    /\ Rerun

\* Subjects page: Save changes
SubjectsSaveChanges(edited) ==
    /\ SaveEdited(edited)
    /\ UNCHANGED <<call, disk, remote, accounts, imp, firestore, saving, logsCsv, testsCsv,
                   settingsJson, today, usersCsv, user, page>>
    /\ Rerun

\* Settings page: Run import with a subjects.csv
SubjectsImport(import_mode, f1) ==
    /\ import_mode = "replace_file" \/ NotNa(user)
    /\ LET uid == user
           default_exam == Get(load_settings, "default_exam_date",
                               DEFAULT_SETTINGS.default_exam_date)
           incoming == normalize_subjects_df(
                           f1, default_exam,
                           IF import_mode /= "replace_file" THEN uid ELSE Null,
                           Ids(subjectsCsv))
           merged == Imported(import_mode, subjectsCsv, incoming, uid)
       IN  /\ Len(merged) <= MaxSubjectRows
           /\ subjectsCsv' = merged
    /\ UNCHANGED <<call, disk, remote, accounts, imp, firestore, saving, logsCsv, testsCsv,
                   settingsJson, today, usersCsv, user, page>>
    /\ Rerun

InitSubjects ==
    /\ subjectsCsv = INITIAL_SUBJECTS
    /\ logsCsv = <<>>
    /\ testsCsv = <<>>
    /\ settingsJson = SettingsFile(DEFAULT_SETTINGS)
    /\ firestore = FirebaseOff
    /\ saving = Null
    /\ imp = Null
    /\ disk = NoDisk
    /\ remote = NoRemote
    /\ accounts = <<>>
    /\ call = Null
    /\ today = 1
    /\ usersCsv = SubjectsAccounts
    /\ user = Null
    /\ page = "subjects"
    /\ cm = NoCall
    /\ ready = Null

NextSubjects ==
    \/ \E u \in SubjectsAccounts : SubjectsSignIn(u)
    \/ SubjectsSignOut
    \/ SubjectsAdd
    \/ \E edited \in EditorEdits(sanitize_subjects_for_editor(subjects_df, load_settings)) :
            SubjectsSaveChanges(edited)
    \/ \E m \in ImportModes, f1 \in SubjectsUploads : SubjectsImport(m, f1)

SpecSubjects == InitSubjects /\ [][NextSubjects]_vars

----------------------------------------------------------------------------
\* save_df and load_df on logs.csv (core/storage.py), step by step: one
\* session saves while another loads, with and without Firebase

\* for _ in range(5): the attempts of tmp.replace(path)
ReplaceAttempts == 5

\* a file as to_csv leaves it: opened (emptied), or written through
OpenedFile == [rows |-> <<>>, complete |-> FALSE]
WrittenFile(rows) == [rows |-> rows, complete |-> TRUE]

\* logs.csv before the call
FileLogRows ==
    <<[id |-> "l1", subject_id |-> "s1", hours |-> 4, score |-> Some(80), user_id |-> "u1"],
      [id |-> "l2", subject_id |-> "s1", hours |-> 6, score |-> Null, user_id |-> "u1"]>>

\* the frames the Daily Log page hands to save_df: a row deleted, a row
\* edited, a row added
SavedFrames(rows) ==
    {SelectSeq(rows, LAMBDA r : r.id /= rows[i].id) : i \in DOMAIN rows}
    \cup {[rows EXCEPT ![i].hours = 8] : i \in DOMAIN rows}
    \cup {Append(rows, [id |-> "l3", subject_id |-> "s1", hours |-> 2,
                        score |-> Some(100), user_id |-> "u1"])}

\* _firestore_write_collection(coll, df): batch.set of one document per row
\* of df under the row's id; no document is deleted
_firestore_write_collection(coll, df) ==
    LET kept == [i \in DOMAIN coll |->
                    IF \E j \in DOMAIN df : df[j].id = coll[i].id
                    THEN df[CHOOSE j \in DOMAIN df : df[j].id = coll[i].id]
                    ELSE coll[i]]
    IN  kept \o SelectSeq(df, LAMBDA r : \A i \in DOMAIN coll : coll[i].id /= r.id)

\* save_df returns: load_df.clear()
SaveDfReturn(df) ==
    [disk EXCEPT !.save = Null, !.saved = Some(df), !.loaded = Null]

\* save_df(df, path) begins: to_csv opens logs.csv.tmp
SaveDfOpen(df) ==
    /\ ~disk.crashed
    /\ IsNull(disk.save)
    /\ disk' = [disk EXCEPT !.tmp = Some(OpenedFile),
                            !.save = Some([df |-> df, prev |-> logsCsv,
                                           pc |-> "to_csv", tries |-> 0]),
                            !.saved = Null, !.loaded = Null]
    /\ UNCHANGED <<call, remote, accounts, imp, firestore, saving, subjectsCsv, logsCsv, testsCsv,
                   settingsJson, today, usersCsv, user, page, cm, ready>>

\* to_csv writes the frame to logs.csv.tmp and closes it
SaveDfToCsv ==
    /\ ~disk.crashed
    /\ NotNa(disk.save)
    /\ Val(disk.save).pc = "to_csv"
    /\ disk' = [disk EXCEPT !.tmp = Some(WrittenFile(Val(disk.save).df)),
                            !.save = Some([Val(disk.save) EXCEPT !.pc = "replace"])]
    /\ UNCHANGED <<call, remote, accounts, imp, firestore, saving, subjectsCsv, logsCsv, testsCsv,
                   settingsJson, today, usersCsv, user, page, cm, ready>>

\* tmp.replace(path) succeeds (no other process holds logs.csv open)
SaveDfReplace ==
    /\ ~disk.crashed
    /\ NotNa(disk.save)
    /\ Val(disk.save).pc = "replace"
    /\ IsNull(disk.load)
    /\ logsCsv' = Val(disk.tmp).rows
    /\ disk' = IF firestore.enabled
               THEN [disk EXCEPT !.tmp = Null, !.path_complete = Val(disk.tmp).complete,
                                 !.save = Some([Val(disk.save) EXCEPT !.pc = "firestore"])]
               ELSE [SaveDfReturn(Val(disk.save).df) EXCEPT
                        !.tmp = Null, !.path_complete = Val(disk.tmp).complete]
    /\ UNCHANGED <<call, remote, accounts, imp, firestore, saving, subjectsCsv, testsCsv,
                   settingsJson, today, usersCsv, user, page, cm, ready>>

\* tmp.replace(path) raises PermissionError: after time.sleep(0.2) the loop
\* tries again, and after the last attempt save_df goes on without the file
\* having been replaced
SaveDfPermissionError ==
    /\ ~disk.crashed
    /\ NotNa(disk.save)
    /\ Val(disk.save).pc = "replace"
    /\ LET tries == Val(disk.save).tries + 1
       IN  disk' = IF tries < ReplaceAttempts
                   THEN [disk EXCEPT !.save = Some([Val(disk.save) EXCEPT !.tries = tries])]
                   ELSE IF firestore.enabled
                   THEN [disk EXCEPT !.save = Some([Val(disk.save) EXCEPT
                                                       !.tries = tries, !.pc = "firestore"])]
                   ELSE SaveDfReturn(Val(disk.save).df)
    /\ UNCHANGED <<call, remote, accounts, imp, firestore, saving, subjectsCsv, logsCsv, testsCsv,
                   settingsJson, today, usersCsv, user, page, cm, ready>>

\* with Firebase on: _firestore_write_collection, whose failure is only logged
SaveDfFirestore(written) ==
    /\ ~disk.crashed
    /\ NotNa(disk.save)
    /\ Val(disk.save).pc = "firestore"
    /\ remote' = IF written
                 THEN [remote EXCEPT !.logs =
                          _firestore_write_collection(remote.logs, Val(disk.save).df)]
                 ELSE remote
    /\ disk' = SaveDfReturn(Val(disk.save).df)
    /\ UNCHANGED <<call, accounts, imp, firestore, saving, subjectsCsv, logsCsv, testsCsv,
                   settingsJson, today, usersCsv, user, page, cm, ready>>

\* the process dies inside save_df
SaveDfCrash ==
    /\ ~disk.crashed
    /\ NotNa(disk.save)
    /\ disk' = [disk EXCEPT !.crashed = TRUE]
    /\ UNCHANGED <<call, remote, accounts, imp, firestore, saving, subjectsCsv, logsCsv, testsCsv,
                   settingsJson, today, usersCsv, user, page, cm, ready>>

\* load_df(path) from the local CSV: Firebase is off, or the fetch failed
LoadDfLocal(fetched) ==
    /\ IsNull(disk.load)
    /\ ~(firestore.enabled /\ fetched)
    /\ disk' = [disk EXCEPT !.loaded = Some(logsCsv)]
    /\ UNCHANGED <<call, remote, accounts, imp, firestore, saving, subjectsCsv, logsCsv, testsCsv,
                   settingsJson, today, usersCsv, user, page, cm, ready>>

\* load_df(path) with Firebase on: the collection is fetched and
\* df_cache.to_csv(path) opens logs.csv itself for writing
LoadDfFetch ==
    /\ IsNull(disk.load)
    /\ firestore.enabled
    /\ disk' = [disk EXCEPT !.load = Some(remote.logs), !.path_complete = FALSE]
    /\ logsCsv' = OpenedFile.rows
    /\ UNCHANGED <<call, remote, accounts, imp, firestore, saving, subjectsCsv, testsCsv,
                   settingsJson, today, usersCsv, user, page, cm, ready>>

\* to_csv writes the fetched rows to logs.csv and load_df returns them
LoadDfCached ==
    /\ NotNa(disk.load)
    /\ logsCsv' = Val(disk.load)
    /\ disk' = [disk EXCEPT !.load = Null, !.path_complete = TRUE,
                            !.loaded = Some(Val(disk.load))]
    /\ UNCHANGED <<call, remote, accounts, imp, firestore, saving, subjectsCsv, testsCsv,
                   settingsJson, today, usersCsv, user, page, cm, ready>>

InitFile ==
    /\ subjectsCsv = <<>>
    /\ logsCsv = FileLogRows
    /\ testsCsv = <<>>
    /\ settingsJson = SettingsFile(DEFAULT_SETTINGS)
    /\ firestore \in {FirebaseOff, Firebase(Some(DEFAULT_SETTINGS))}
    /\ saving = Null
    /\ imp = Null
    /\ disk = NoDisk
    /\ remote = IF firestore.enabled THEN [NoRemote EXCEPT !.logs = FileLogRows]
                ELSE NoRemote
    /\ accounts = <<>>
    /\ call = Null
    /\ today = 1
    /\ usersCsv = {"u1"}
    /\ user = Some("u1")
    /\ page = "daily_log"
    /\ cm = NoCall
    /\ ready = Null

NextFile ==
    \/ \E df \in SavedFrames(FileLogRows) : SaveDfOpen(df)
    \/ SaveDfToCsv
    \/ SaveDfReplace
    \/ SaveDfPermissionError
    \/ \E written \in BOOLEAN : SaveDfFirestore(written)
    \/ SaveDfCrash
    \/ \E fetched \in BOOLEAN : LoadDfLocal(fetched)
    \/ LoadDfFetch
    \/ LoadDfCached

SpecFile == InitFile /\ [][NextFile]_vars

----------------------------------------------------------------------------
\* The users store (core/auth.py): create_user, rename_user and delete_user
\* called one after the other, users.csv read back by pd.read_csv each time

MaxAccounts == 4

\* the names the callers pass (already stripped)
UsernameChoices == {"ann", "Ann", "null"}

\* the fields pd.read_csv takes for a missing value, among the names above
\* and what to_csv writes
NaValues == {"", "null"}

\* str.lower()
lower(name) == IF name = "Ann" THEN "ann" ELSE name

\* pd.read_csv of a username field
read_csv_username(field) == IF field \in NaValues THEN Null ELSE Some(field)

\* to_csv of a username cell: a missing value is written as an empty field
to_csv_username(cell) == IF NotNa(cell) THEN Val(cell) ELSE ""

\* load_users(): users.csv as a frame
load_users ==
    [i \in DOMAIN accounts |->
        [accounts[i] EXCEPT !.username = read_csv_username(@)]]

\* save_users(df): the frame as users.csv
save_users(df) ==
    [i \in DOMAIN df |-> [df[i] EXCEPT !.username = to_csv_username(@)]]

\* users["username"].str raises AttributeError on a column that holds
\* nothing but missing values (read_csv makes it float64)
StrAccessorRaises(users) ==
    /\ users /= <<>>
    /\ \A i \in DOMAIN users : IsNull(users[i].username)

\* (users["username"].str.lower() == name.lower()).any()
NameTaken(users, name) ==
    \E i \in DOMAIN users :
        /\ NotNa(users[i].username)
        /\ lower(Val(users[i].username)) = lower(name)

\* create_user(username)
CreateUser(username) ==
    /\ Len(accounts) < MaxAccounts
    /\ LET users == load_users
           uid == uuid4(Ids(accounts))
       IN  IF username = ""
           THEN /\ accounts' = accounts
                /\ call' = Some([name |-> "create_user", raised |-> FALSE, ret |-> Null,
                                 arg |-> username])
           ELSE IF StrAccessorRaises(users)
           THEN /\ accounts' = accounts
                /\ call' = Some([name |-> "create_user", raised |-> TRUE, ret |-> Null,
                                 arg |-> username])
           ELSE IF NameTaken(users, username)
           THEN /\ accounts' = accounts
                /\ call' = Some([name |-> "create_user", raised |-> FALSE, ret |-> Null,
                                 arg |-> username])
           ELSE /\ accounts' = save_users(Append(users, [id |-> uid,
                                                         username |-> Some(username)]))
                /\ call' = Some([name |-> "create_user", raised |-> FALSE,
                                 ret |-> Some(uid), arg |-> username])
    /\ usersCsv' = Ids(accounts')
    /\ UNCHANGED <<disk, remote, imp, firestore, saving, subjectsCsv, logsCsv, testsCsv,
                   settingsJson, today, user, page, cm, ready>>

\* rename_user(user_id, new_name)
RenameUser(user_id, new_name) ==
    /\ LET users == load_users
       IN  IF StrAccessorRaises(users)
           THEN /\ accounts' = accounts
                /\ call' = Some([name |-> "rename_user", raised |-> TRUE, ret |-> Null,
                                 arg |-> new_name])
           ELSE IF NameTaken(users, new_name) \/ user_id \notin Ids(users)
           THEN /\ accounts' = accounts
                /\ call' = Some([name |-> "rename_user", raised |-> FALSE,
                                 ret |-> Some(FALSE), arg |-> new_name])
           ELSE /\ accounts' = save_users(
                        [i \in DOMAIN users |->
                            IF users[i].id = user_id
                            THEN [users[i] EXCEPT !.username = Some(new_name)]
                            ELSE users[i]])
                /\ call' = Some([name |-> "rename_user", raised |-> FALSE,
                                 ret |-> Some(TRUE), arg |-> new_name])
    /\ usersCsv' = Ids(accounts')
    /\ UNCHANGED <<disk, remote, imp, firestore, saving, subjectsCsv, logsCsv, testsCsv,
                   settingsJson, today, user, page, cm, ready>>

\* load_df(path): the collection when Firebase is on and the fetch works,
\* the local CSV otherwise
load_df(file, coll, fetched) ==
    IF firestore.enabled /\ fetched THEN coll ELSE file

\* the rows delete_user hands to save_df for one store
DeleteUserRows(df, user_id, reassign_to) ==
    IF NotNa(reassign_to)
    THEN [i \in DOMAIN df |->
            IF df[i].user_id = user_id THEN [df[i] EXCEPT !.user_id = Val(reassign_to)]
            ELSE df[i]]
    ELSE SelectSeq(df, LAMBDA r : r.user_id /= user_id)

\* the local CSV of one store after delete_user's load_df and save_df: the
\* loader's cache copy, then the frame if tmp.replace(path) went through
DeleteUserFile(file, coll, user_id, reassign_to, fetched, replaced) ==
    IF replaced THEN DeleteUserRows(load_df(file, coll, fetched), user_id, reassign_to)
    ELSE load_df(file, coll, fetched)

\* the collection of one store after delete_user's save_df
DeleteUserColl(file, coll, user_id, reassign_to, fetched, written) ==
    IF firestore.enabled /\ written
    THEN _firestore_write_collection(
            coll, DeleteUserRows(load_df(file, coll, fetched), user_id, reassign_to))
    ELSE coll

\* delete_user(user_id, reassign_to); fetched, replaced and written say how
\* the Firestore fetch, the rename of the temp file and the Firestore write
\* of load_df and save_df went
DeleteUser(user_id, reassign_to, fetched, replaced, written) ==
    /\ user_id \in Ids(accounts)
    /\ accounts' = save_users(SelectSeq(load_users, LAMBDA r : r.id /= user_id))
    /\ usersCsv' = Ids(accounts')
    /\ subjectsCsv' = DeleteUserFile(subjectsCsv, remote.subjects, user_id, reassign_to,
                                     fetched, replaced)
    /\ logsCsv' = DeleteUserFile(logsCsv, remote.logs, user_id, reassign_to,
                                 fetched, replaced)
    /\ testsCsv' = DeleteUserFile(testsCsv, remote.tests, user_id, reassign_to,
                                  fetched, replaced)
    /\ remote' =
          [subjects |-> DeleteUserColl(subjectsCsv, remote.subjects, user_id, reassign_to,
                                       fetched, written),
           logs |-> DeleteUserColl(logsCsv, remote.logs, user_id, reassign_to,
                                   fetched, written),
           tests |-> DeleteUserColl(testsCsv, remote.tests, user_id, reassign_to,
                                    fetched, written)]
    /\ call' = Some([name |-> "delete_user", raised |-> FALSE, ret |-> Null,
                     arg |-> user_id, reassign_to |-> reassign_to,
                     before |-> [subjects |-> load_df(subjectsCsv, remote.subjects, fetched),
                                 logs |-> load_df(logsCsv, remote.logs, fetched),
                                 tests |-> load_df(testsCsv, remote.tests, fetched)]])
    /\ UNCHANGED <<disk, imp, firestore, saving, settingsJson, today, user, page, cm, ready>>

\* the stores of three accounts before the calls
AuthAccounts ==
    <<[id |-> "u1", username |-> "ann"], [id |-> "u2", username |-> "bob"],
      [id |-> "u3", username |-> "cat"]>>
AuthSubjects ==
    <<[id |-> "s1", credits |-> 2, confidence |-> 8, exam_date |-> IsoDate(4), user_id |-> "u1"],
      [id |-> "s2", credits |-> 2, confidence |-> 5, exam_date |-> IsoDate(4), user_id |-> "u2"]>>
AuthLogs ==
    <<[id |-> "l1", subject_id |-> "s1", hours |-> 4, score |-> Some(80), user_id |-> "u1"]>>
AuthTests ==
    <<[id |-> "t1", subject_id |-> "s2", score |-> Some(60), user_id |-> "u2"],
      [id |-> "t2", subject_id |-> "s2", score |-> Some(90), user_id |-> "u3"]>>

InitAuth ==
    /\ subjectsCsv = AuthSubjects
    /\ logsCsv = AuthLogs
    /\ testsCsv = AuthTests
    /\ settingsJson = SettingsFile(DEFAULT_SETTINGS)
    /\ firestore \in {FirebaseOff, Firebase(Some(DEFAULT_SETTINGS))}
    /\ saving = Null
    /\ imp = Null
    /\ disk = NoDisk
    /\ remote = IF firestore.enabled
                THEN [subjects |-> AuthSubjects, logs |-> AuthLogs, tests |-> AuthTests]
                ELSE NoRemote
    /\ accounts = AuthAccounts
    /\ call = Null
    /\ today = 1
    /\ usersCsv = Ids(AuthAccounts)
    /\ user = Null
    /\ page = "settings"
    /\ cm = NoCall
    /\ ready = Null

\* create_user and rename_user in any order
NextUsers ==
    \/ \E username \in UsernameChoices : CreateUser(username)
    \/ \E user_id \in Ids(accounts), new_name \in UsernameChoices :
            RenameUser(user_id, new_name)

SpecUsers == InitAuth /\ [][NextUsers]_vars

\* delete_user, account after account
NextDelete ==
    \E user_id \in Ids(accounts) :
        \E reassign_to \in {Null} \cup {Some(r) : r \in Ids(accounts) \ {user_id}},
           fetched, replaced, written \in BOOLEAN :
              DeleteUser(user_id, reassign_to, fetched, replaced, written)

SpecDelete == InitAuth /\ [][NextDelete]_vars

----------------------------------------------------------------------------
\* What the claims read off a call record

\* the rows of a table that reference subject id
RowsFor(rows, id) == {i \in DOMAIN rows : rows[i].subject_id = id}

\* those of them that carry a score
ScoredFor(rows, id) == {i \in RowsFor(rows, id) : rows[i].score /= {}}

RECURSIVE ScoreTotal(_, _)
ScoreTotal(rows, I) ==
    IF I = {} THEN 0
    ELSE LET i == CHOOSE j \in I : TRUE
         IN  (CHOOSE v \in rows[i].score : TRUE) + ScoreTotal(rows, I \ {i})

\* the mean score of a subject's scored rows, as a fraction
MeanFor(rows, id) ==
    Rat(ScoreTotal(rows, ScoredFor(rows, id)), Cardinality(ScoredFor(rows, id)))

RECURSIVE PrioritySum(_, _)
PrioritySum(m, I) ==
    IF I = {} THEN 0
    ELSE LET i == CHOOSE j \in I : TRUE IN m[i].priority + PrioritySum(m, I \ {i})

\* sum of priority_i * avg_score_i, as a fraction
RECURSIVE WeightedScoreSum(_, _)
WeightedScoreSum(m, I) ==
    IF I = {} THEN RZero
    ELSE LET i == CHOOSE j \in I : TRUE
         IN  RAdd(RMul(RInt(m[i].priority), m[i].avg_score),
                  WeightedScoreSum(m, I \ {i}))

----------------------------------------------------------------------------
\* C1: for every subject with both averages, avg_score = logs_avg*w +
\* tests_avg*(1-w) for the configured w = logs_weight whenever the stored
\* settings do not supply a tests_weight of their own.
C1_DerivedTestsWeight ==
    (cm.valid /\ ~(cm.stored.readable /\ "tests_weight" \in DOMAIN cm.stored.doc)) =>
        \A i \in DOMAIN cm.metrics :
            LET id == cm.subjects[i].id
                w == cm.settings.logs_weight
            IN  (ScoredFor(cm.logs, id) /= {} /\ ScoredFor(cm.tests, id) /= {}) =>
                    cm.metrics[i].avg_score =
                        RAdd(RMul(MeanFor(cm.logs, id), Rat(w, 100)),
                             RMul(MeanFor(cm.tests, id), Rat(100 - w, 100)))

C3_NoSubjectDropped ==
    cm.valid =>
        /\ Len(cm.metrics) = Len(cm.subjects)
        /\ \A i \in DOMAIN cm.subjects :
            /\ cm.metrics[i].id = cm.subjects[i].id
            /\ RowsFor(cm.logs, cm.subjects[i].id) = {} =>
                   cm.metrics[i].hours = 0 /\ cm.metrics[i].logs_avg = {}
            /\ RowsFor(cm.tests, cm.subjects[i].id) = {} =>
                   cm.metrics[i].tests_avg = {}

\* two subjects, one with a log and one that nothing references
C3_Witness ==
    /\ cm.valid
    /\ Len(cm.subjects) = 2
    /\ \E i, j \in DOMAIN cm.subjects :
        /\ RowsFor(cm.logs, cm.subjects[i].id) /= {}
        /\ RowsFor(cm.logs, cm.subjects[j].id) = {}
        /\ RowsFor(cm.tests, cm.subjects[j].id) = {}
        /\ cm.metrics[j].hours = 0

\* C4: avg_score follows the blend precedence for every subject: both
\* averages present -> logs_avg*logs_weight + tests_avg*tests_weight; only
\* logs -> logs_avg; only tests -> tests_avg; neither -> 0; logs that all
\* have a null score count as absent.
C4_BlendPrecedence ==
    cm.valid =>
        \A i \in DOMAIN cm.metrics :
            LET id == cm.subjects[i].id
                hasL == ScoredFor(cm.logs, id) /= {}
                hasT == ScoredFor(cm.tests, id) /= {}
                wl == Rat(cm.settings.logs_weight, 100)
                wt == Rat(cm.settings.tests_weight, 100)
            IN  cm.metrics[i].avg_score =
                    IF hasL /\ hasT
                    THEN RAdd(RMul(MeanFor(cm.logs, id), wl),
                              RMul(MeanFor(cm.tests, id), wt))
                    ELSE IF hasL THEN MeanFor(cm.logs, id)
                    ELSE IF hasT THEN MeanFor(cm.tests, id)
                    ELSE RZero

\* a subject whose only log has a null score and which has a test, beside a
\* subject with both averages
C4_Witness ==
    /\ cm.valid
    /\ \E i \in DOMAIN cm.metrics :
        /\ RowsFor(cm.logs, cm.subjects[i].id) /= {}
        /\ ScoredFor(cm.logs, cm.subjects[i].id) = {}
        /\ ScoredFor(cm.tests, cm.subjects[i].id) /= {}
        /\ cm.metrics[i].avg_score = MeanFor(cm.tests, cm.subjects[i].id)
        /\ cm.metrics[i].avg_score /= RZero

\* C5: a subject with no logs and no tests gets avg_score = 0 and
\* priority_gap = priority.
C5_NoDataGapIsPriority ==
    cm.valid =>
        \A i \in DOMAIN cm.metrics :
            (RowsFor(cm.logs, cm.subjects[i].id) = {}
             /\ RowsFor(cm.tests, cm.subjects[i].id) = {}) =>
                /\ cm.metrics[i].avg_score = RZero
                /\ cm.metrics[i].priority_gap = RInt(cm.metrics[i].priority)

\* a subject of non-zero priority without logs or tests, while another
\* subject has data
C5_Witness ==
    /\ cm.valid
    /\ cm.logs /= <<>>
    /\ \E i \in DOMAIN cm.metrics :
        /\ RowsFor(cm.logs, cm.subjects[i].id) = {}
        /\ RowsFor(cm.tests, cm.subjects[i].id) = {}
        /\ cm.metrics[i].priority /= 0
        /\ cm.metrics[i].priority_gap = RInt(cm.metrics[i].priority)

\* C6: whatever add, edit, import and settings-save operations came before,
\* the readiness the Dashboard shows is a number in [0,1].
C6_ReadinessInUnitInterval ==
    NotNa(ready) => (RLe(RZero, Val(ready)) /\ RLe(Val(ready), ROne))

\* C7: weighted_readiness returns 0.0, and no inf or nan from a division by
\* zero, when the metrics table is empty or the priorities sum to zero.
C7_ReadinessZeroGuard ==
    (ready /= {} /\ PrioritySum(cm.metrics, DOMAIN cm.metrics) = 0) =>
        ready = {RZero}

\* a single subject of priority 0 that has a score
C7_Witness ==
    /\ ready = {RZero}
    /\ Len(cm.metrics) = 1
    /\ cm.metrics[1].priority = 0
    /\ cm.metrics[1].avg_score /= RZero

\* C8: when the priorities do not sum to zero, weighted_readiness is
\* sum(priority_i * avg_score_i / 100) / sum(priority_i).
C8_ReadinessFormula ==
    LET den == PrioritySum(cm.metrics, DOMAIN cm.metrics)
    IN  (ready /= {} /\ den /= 0) =>
            \A r \in ready :
                RMul(r, RInt(100 * den)) =
                    WeightedScoreSum(cm.metrics, DOMAIN cm.metrics)

\* two subjects of different non-zero priorities and different scores
C8_Witness ==
    /\ ready /= {}
    /\ ready /= {RZero}
    /\ Len(cm.metrics) = 2
    /\ cm.metrics[1].priority /= cm.metrics[2].priority
    /\ cm.metrics[1].priority /= 0
    /\ cm.metrics[2].priority /= 0
    /\ cm.metrics[1].avg_score /= cm.metrics[2].avg_score

\* C9: days_left is never negative, also for a subject whose exam date is
\* in the past or missing.
C9_DaysLeftNonNegative ==
    cm.valid => \A i \in DOMAIN cm.metrics : cm.metrics[i].days_left >= 0

\* an exam date before the day of the call, and a default exam date before it
C9_Witness ==
    /\ cm.valid
    /\ \E i \in DOMAIN cm.subjects :
        /\ cm.subjects[i].exam_date.kind = "iso"
        /\ cm.subjects[i].exam_date.day < cm.today
    /\ \E i \in DOMAIN cm.subjects :
        /\ cm.subjects[i].exam_date.kind = "empty"
        /\ cm.settings.default_exam_date.day < cm.today

\* C10: days_left = max(0, days from today to the effective exam date): the
\* subject's own exam_date if it parses, else the configured
\* default_exam_date.
C10_DaysLeftValue ==
    cm.valid =>
        \A i \in DOMAIN cm.metrics :
            LET own == cm.subjects[i].exam_date
                eff == IF own.kind = "iso" THEN own.day
                       ELSE cm.settings.default_exam_date.day
            IN  cm.metrics[i].days_left =
                    IF eff - cm.today > 0 THEN eff - cm.today ELSE 0

\* a malformed date replaced by a default in the future, beside a subject
\* with its own, different number of days left
C10_Witness ==
    /\ cm.valid
    /\ \E i, j \in DOMAIN cm.subjects :
        /\ cm.subjects[i].exam_date.kind = "text"
        /\ cm.metrics[i].days_left > 0
        /\ cm.subjects[j].exam_date.kind = "iso"
        /\ cm.metrics[j].days_left > 0
        /\ cm.metrics[j].days_left /= cm.metrics[i].days_left

----------------------------------------------------------------------------
\* C11: for every subject in the output of compute_metrics,
\* priority = (10 - confidence) * credits; credits 2 and confidence 8 give 4.
C11_PriorityFormula ==
    cm.valid =>
        /\ Len(cm.metrics) = Len(cm.subjects)
        /\ \A i \in DOMAIN cm.metrics :
              cm.metrics[i].priority =
                  (10 - cm.subjects[i].confidence) * cm.subjects[i].credits

\* a call whose output holds the subject with credits 2 and confidence 8 at priority 4
C11_Witness ==
    /\ cm.valid
    /\ \E i \in DOMAIN cm.metrics :
          /\ cm.subjects[i].credits = 2
          /\ cm.subjects[i].confidence = 8
          /\ cm.metrics[i].priority = 4

----------------------------------------------------------------------------
\* C12: for every subject in the output of compute_metrics,
\* priority_gap = priority * (1 - avg_score / 100); priority 16 and
\* avg_score 74 give 4.16.
C12_PriorityGapFormula ==
    cm.valid =>
        \A i \in DOMAIN cm.metrics :
            LET r == cm.metrics[i]
            IN  RMul(r.priority_gap, RHundred) =
                    RMul(RInt(r.priority), RSub(RHundred, r.avg_score))

\* a call whose output holds a subject of priority 16 with avg_score 74 and gap 4.16
C12_Witness ==
    /\ cm.valid
    /\ \E i \in DOMAIN cm.metrics :
          /\ cm.metrics[i].priority = 16
          /\ cm.metrics[i].avg_score = Rat(74, 1)
          /\ cm.metrics[i].priority_gap = Rat(416, 100)

----------------------------------------------------------------------------
\* C13: compute_metrics has no side effects: a call leaves settings.json,
\* the Firestore settings document and the subjects, logs and tests stores
\* unchanged, with Firebase off and with Firebase on.
C13_NoSideEffects ==
    [][cm' /= cm =>
          UNCHANGED <<imp, settingsJson, firestore, subjectsCsv, logsCsv, testsCsv>>]_vars

----------------------------------------------------------------------------
\* C14: a compute_metrics call that runs while a save_settings call is in
\* progress uses one consistent settings snapshot: the settings as they were
\* before the save or as they are after it, never a third value.
C14_ConsistentSnapshot ==
    [][(NotNa(saving) /\ cm' /= cm) =>
          cm'.settings \in
              {IF firestore.enabled THEN _firestore_load_settings
               ELSE LoadSettingsFrom(Val(saving).before),
               Update(DEFAULT_SETTINGS, Val(saving).doc)}]_vars

----------------------------------------------------------------------------
\* a row whose subject_id is the id of no subject
OrphanOf(subjects, r) == \A i \in DOMAIN subjects : subjects[i].id /= r.subject_id

WithoutOrphans(subjects, rows) ==
    SelectSeq(rows, LAMBDA r : ~OrphanOf(subjects, r))

\* C15: log and test rows whose subject_id matches no subject id are left
\* out of the aggregation: the output is the output for the same tables
\* without those rows (same rows, same hours, logs_avg, tests_avg, avg_score
\* and priority_gap), so adding or removing them changes nothing.
C15_OrphansExcluded ==
    cm.valid =>
        cm.metrics = compute_metrics(cm.subjects,
                                     WithoutOrphans(cm.subjects, cm.logs),
                                     WithoutOrphans(cm.subjects, cm.tests))

\* a call with an orphaned log, an orphaned test and a subject that has hours
C15_Witness ==
    /\ cm.valid
    /\ \E i \in DOMAIN cm.logs : OrphanOf(cm.subjects, cm.logs[i])
    /\ \E i \in DOMAIN cm.tests : OrphanOf(cm.subjects, cm.tests[i])
    /\ \E i \in DOMAIN cm.metrics :
          /\ cm.metrics[i].hours > 0
          /\ NotNa(cm.metrics[i].logs_avg)

----------------------------------------------------------------------------
\* the import form after Run import
Ran == NotNa(imp) /\ Val(imp).ran

\* C16: every subject satisfies credits >= 1: after normalize_subjects_df
\* no subject row has credits below 1, whatever the incoming credits cell
\* held (0, negative, a fraction, missing or not a number).
C16_CreditsAtLeastOne ==
    Ran => \A i \in DOMAIN Val(imp).subjects : Val(imp).subjects[i].credits >= 1

----------------------------------------------------------------------------
\* C17: confidence is clamped, not rejected: after normalize_subjects_df
\* every row has an integer confidence in 0..10; a value below 0 becomes 0, a
\* value above 10 becomes 10, a missing or non-numeric one becomes 5, an
\* integer within the range is kept, and no row is removed.
C17_ConfidenceClamped ==
    (Ran /\ NotNa(Val(imp).f1)) =>
        LET raw == Val(Val(imp).f1)
            out == Val(imp).subjects
        IN  /\ Len(out) = Len(raw)
            /\ \A i \in DOMAIN raw :
                  /\ out[i].confidence \in 0..10
                  /\ IsNull(raw[i].confidence) => out[i].confidence = 5
                  /\ \A q \in raw[i].confidence :
                        /\ q[1] < 0 => out[i].confidence = 0
                        /\ q[1] > 10 * q[2] => out[i].confidence = 10
                        /\ (q[2] = 1 /\ q[1] \in 0..10) => out[i].confidence = q[1]

\* an import whose rows carried confidence 12 and -3, now 10 and 0
C17_Witness ==
    /\ Ran
    /\ NotNa(Val(imp).f1)
    /\ \E i, j \in DOMAIN Val(imp).subjects :
          /\ Val(Val(imp).f1)[i].confidence = Some(RInt(12))
          /\ Val(imp).subjects[i].confidence = 10
          /\ Val(Val(imp).f1)[j].confidence = Some(RInt(-3))
          /\ Val(imp).subjects[j].confidence = 0

----------------------------------------------------------------------------
----------------------------------------------------------------------------
\* the rows of an uploaded logs.csv of one subject whose score is a number
\* within [0, 100]
RawInRange(raw, id) ==
    {i \in RowsFor(raw, id) : \E v \in raw[i].score : v \in 0..100}

\* the sum of the hours cells of a set of uploaded rows that hold a number
RECURSIVE RawHours(_, _)
RawHours(raw, I) ==
    IF I = {} THEN 0
    ELSE LET i == CHOOSE j \in I : TRUE
         IN  (IF raw[i].hours = {} THEN 0 ELSE (CHOOSE h \in raw[i].hours : TRUE))
             + RawHours(raw, I \ {i})

\* C19: a log score outside [0, 100] is treated as missing, not clamped:
\* normalize_logs_df keeps the row and its hours and empties the score, so
\* the subject's hours count every uploaded row and its logs_avg is the mean
\* of the uploaded scores that lie within the range.
C19_LogScoreNulled ==
    (Ran /\ NotNa(Val(imp).f2)) =>
        LET raw == Val(Val(imp).f2)
            out == Val(imp).logs
        IN  /\ Len(out) = Len(raw)
            /\ \A i \in DOMAIN raw :
                  /\ out[i].subject_id = raw[i].subject_id
                  /\ out[i].hours = RawHours(raw, {i})
                  /\ out[i].score =
                        IF \E v \in raw[i].score : v \in 0..100
                        THEN raw[i].score ELSE Null
            /\ (cm.valid /\ cm.logs = out) =>
                  \A k \in DOMAIN cm.metrics :
                      LET id == cm.metrics[k].id
                      IN  /\ cm.metrics[k].hours = RawHours(raw, RowsFor(raw, id))
                          /\ cm.metrics[k].logs_avg =
                                IF RawInRange(raw, id) = {} THEN Null
                                ELSE Some(Rat(ScoreTotal(raw, RawInRange(raw, id)),
                                              Cardinality(RawInRange(raw, id))))

\* the log uploaded with score 150 and 1.5 hours beside one with score 80
\* and 1 hour: the subject has 2.5 hours and a logs_avg of 80
C19_Witness ==
    /\ Ran
    /\ Val(imp).f2 = Some(LogsFileA)
    /\ cm.valid
    /\ cm.logs = Val(imp).logs
    /\ \E i \in DOMAIN cm.logs : cm.logs[i].id = "l1" /\ IsNull(cm.logs[i].score)
    /\ \E k \in DOMAIN cm.metrics :
          /\ cm.metrics[k].hours = 10
          /\ cm.metrics[k].logs_avg = Some(RInt(80))

----------------------------------------------------------------------------
\* C20: every log entry satisfies hours >= 0: after an import through
\* normalize_logs_df and after the Daily Log add and save-edits actions no
\* stored log row has negative hours, and every subject's summed hours in
\* compute_metrics is >= 0.
C20_HoursNonNegative ==
    /\ \A i \in DOMAIN logsCsv : logsCsv[i].hours >= 0
    /\ cm.valid => \A k \in DOMAIN cm.metrics : cm.metrics[k].hours >= 0

----------------------------------------------------------------------------
\* C21: compute_metrics never raises for malformed input rows: whatever the
\* credits, confidence, date and score cells hold, the call returns a metrics
\* table, in which every priority is a number and every average lies within
\* [0, 100] (the repair policy: clamp, null-out or substitute-default).
C21_NeverRaises ==
    /\ ~cm.raised
    /\ cm.valid =>
          \A k \in DOMAIN cm.metrics :
              /\ NotNa(cm.metrics[k].priority)
              /\ \A a \in cm.metrics[k].tests_avg \cup cm.metrics[k].logs_avg :
                    RLe(RZero, a) /\ RLe(a, RHundred)

----------------------------------------------------------------------------
\* C22: save_df replaces logs.csv atomically: all through a save_df call,
\* a crash and a concurrent load_df included, the file at the target path
\* holds the complete previous contents or the complete new contents,
\* never a part of a write
C22_AtomicReplace ==
    NotNa(disk.save) =>
        /\ disk.path_complete
        /\ logsCsv \in {Val(disk.save).prev, Val(disk.save).df}

\* logs.csv holds all the rows of a frame
RowSet(rows) == {rows[i] : i \in DOMAIN rows}

\* C30: read your writes: once save_df(df, path) has returned, the next
\* load_df(path) returns exactly the rows of df (rows df dropped are gone),
\* with and without Firebase, whatever became of the rename attempts and of
\* the Firestore write
C30_ReadYourWrites ==
    (NotNa(disk.saved) /\ NotNa(disk.loaded)) =>
        RowSet(Val(disk.loaded)) = RowSet(Val(disk.saved))

----------------------------------------------------------------------------
\* a Run import step of a signed-in user in one of the two per-user modes
ImportByUser ==
    /\ NotNa(imp) /\ ~Val(imp).ran
    /\ NotNa(imp') /\ Val(imp').ran
    /\ NotNa(user)
    /\ Val(imp).import_mode \in {"append", "replace_user"}

\* the rows of a table that uid owns
OwnedBy(rows, uid) == SelectSeq(rows, LAMBDA r : r.user_id = uid)

\* every normalized incoming row is in the table, owned by uid
LandedFor(rows, incoming, uid) ==
    \A i \in DOMAIN incoming :
        \E j \in DOMAIN rows : rows[j] = [incoming[i] EXCEPT !.user_id = uid]

\* C24: import isolation: for a signed-in uid, _append_current_user and
\* _merge_replace_current_user both keep every row whose user_id differs
\* from uid as it was, and every incoming row ends up owned by uid
C24_ImportIsolation ==
    [][ImportByUser =>
         /\ Others(subjectsCsv', Val(user)) = Others(subjectsCsv, Val(user))
         /\ Others(logsCsv', Val(user)) = Others(logsCsv, Val(user))
         /\ Others(testsCsv', Val(user)) = Others(testsCsv, Val(user))
         /\ LandedFor(subjectsCsv', Val(imp').subjects, Val(user))
         /\ LandedFor(logsCsv', Val(imp').logs, Val(user))
         /\ LandedFor(testsCsv', Val(imp').tests, Val(user))]_vars

\* a per-user import has run over a table that holds a row of somebody else
\* and a row of the user under an id the file holds too
C24_Witness ==
    /\ Ran /\ NotNa(user)
    /\ Val(imp).import_mode \in {"append", "replace_user"}
    /\ NotNa(Val(imp).f1)
    /\ \E j \in DOMAIN subjectsCsv : subjectsCsv[j].user_id /= Val(user)
    /\ \E j \in DOMAIN subjectsCsv :
          /\ subjectsCsv[j].user_id = Val(user)
          /\ subjectsCsv[j].id \in Ids(Val(imp).subjects)

\* C25: "Replace current user's data": after the import the rows the
\* current user owns are exactly the incoming rows; rows the user owned
\* before under an id the file does not hold are gone
C25_ReplaceCurrentUser ==
    [][(ImportByUser /\ Val(imp).import_mode = "replace_user") =>
         /\ NotNa(Val(imp).f1) =>
               RowSet(OwnedBy(subjectsCsv', Val(user))) = RowSet(Val(imp').subjects)
         /\ NotNa(Val(imp).f2) =>
               RowSet(OwnedBy(logsCsv', Val(user))) = RowSet(Val(imp').logs)
         /\ NotNa(Val(imp).f3) =>
               RowSet(OwnedBy(testsCsv', Val(user))) = RowSet(Val(imp').tests)]_vars

----------------------------------------------------------------------------
\* a sign-in of an existing account from the signed-out sidebar
SignInStep == IsNull(user) /\ NotNa(user') /\ Val(user') \in usersCsv

\* the rows with every unowned row (empty user_id field) given to user_id
Claimed(rows, user_id) ==
    [i \in DOMAIN rows |->
        IF rows[i].user_id = "" THEN [rows[i] EXCEPT !.user_id = user_id] ELSE rows[i]]

\* C27: after claim_legacy_rows_for_user(u) every row of the subjects, logs
\* and tests stores that had no owner (an empty or missing user_id, as
\* ensure_store writes it and load_df reads it back from the CSV) is owned
\* by u, and the rows that had an owner are unchanged
C27_LegacyRowsClaimed ==
    [][SignInStep =>
         /\ subjectsCsv' = Claimed(subjectsCsv, Val(user'))
         /\ logsCsv' = Claimed(logsCsv, Val(user'))
         /\ testsCsv' = Claimed(testsCsv, Val(user'))]_vars

----------------------------------------------------------------------------
\* C26: edits require sign-in: while no user is signed in, no action on the
\* Subjects, Daily Log or Self-Tests page (add, save changes, save edits,
\* delete) changes the subjects, logs or tests store
C26_EditsRequireSignIn ==
    [][(/\ IsNull(user) /\ IsNull(user')
        /\ page \in {"subjects", "daily_log", "self_tests"}
        /\ page' = page)
       => UNCHANGED <<subjectsCsv, logsCsv, testsCsv>>]_vars

----------------------------------------------------------------------------
\* C23: subject ids are unique: in every state reachable by add subject,
\* save changes and CSV import (append, replace current user, replace
\* entire file) by any users, no two rows of the subjects store share an id
C23_SubjectIdsUnique ==
    \A i, j \in DOMAIN subjectsCsv :
        i /= j => subjectsCsv[i].id /= subjectsCsv[j].id

----------------------------------------------------------------------------
\* C28: usernames are unique ignoring case under any sequence of
\* create_user and rename_user calls: users.csv never holds two accounts
\* whose usernames are equal up to case (a call that would break this
\* returns None or False and leaves the users store as it was)
C28_UsernamesUnique ==
    \A i, j \in DOMAIN accounts :
        i /= j => lower(accounts[i].username) /= lower(accounts[j].username)

\* what load_df returns for each store
StoreView ==
    [subjects |-> load_df(subjectsCsv, remote.subjects, TRUE),
     logs |-> load_df(logsCsv, remote.logs, TRUE),
     tests |-> load_df(testsCsv, remote.tests, TRUE)]

\* C29: after delete_user(u, reassign_to) u is not in the users store and no
\* row of the subjects, logs or tests stores is owned by u: with
\* reassign_to = r its rows are owned by r, with an empty reassign_to they
\* are removed; the rows of the other users are unchanged
C29_DeleteUser ==
    (NotNa(call) /\ Val(call).name = "delete_user") =>
        /\ Val(call).arg \notin Ids(accounts)
        /\ \A k \in {"subjects", "logs", "tests"} :
              /\ \A i \in DOMAIN StoreView[k] : StoreView[k][i].user_id /= Val(call).arg
              /\ StoreView[k] = DeleteUserRows(Val(call).before[k], Val(call).arg,
                                               Val(call).reassign_to)

====
